---------------------------- MODULE Spec2Model ----------------------------
(***************************************************************************)
(* Model of the YouTube RAG system.                                        *)
(*                                                                         *)
(* The repository ships two programs that share no state:                  *)
(*   - the FastAPI backend (src/backend): a process-wide session map and   *)
(*     four endpoints (process, chat, summary, compare).  The endpoints   *)
(*     are `async def` functions that call the synchronous pipeline with   *)
(*     no await, so the event loop runs each request to completion: one    *)
(*     action per endpoint.                                                *)
(*   - the two-video command line chat (src/multiVideo.py): one chat       *)
(*     history and a process-wide retrieval cache, one action per turn     *)
(*     (handle_user_query).                                                *)
(* A behaviour of Spec is a run of one of the two programs.                *)
(*                                                                         *)
(* External collaborators (metadata service, transcript service,           *)
(* embedding provider, index build, retriever, classifier and completion   *)
(* provider) are nondeterministic: every call either returns one of a      *)
(* small set of values or raises.                                          *)
(*                                                                         *)
(* Texts are sequences of string fragments, so that an f-string that       *)
(* embeds a video id is a sequence that contains the id's fragment.        *)
(***************************************************************************)
EXTENDS Integers, Sequences, FiniteSets, TLC

VARIABLES
    program,          \* "backend" or "multiVideo": which program this run is of
    sessions,         \* backend: pipeline.sessions, session id -> session dict
    mv_history,       \* multiVideo: the chat loop's ChatMessageHistory
    retrieval_cache,  \* multiVideo: retrieval_cache, cache key -> list of docs
    last,             \* observation of the most recent request: inputs, calls, result
    turn_log,         \* ghost: per session, the successful turns in arrival order
    summary_asked,    \* ghost: per (session, video), how often the provider was asked for a summary
    mv_processed,     \* ghost: video ids multiVideo has processed so far
    ops,              \* number of requests handled so far
    threads,          \* per thread, its get_structured_docs or process_video call in progress
    retrieval_locks,  \* multiVideo: retrieval_locks, cache key -> the thread holding the lock
    validation,       \* one run of validate_chunks_for_embeddings: input, provider, output
    ingestion,        \* one run of ingest_video_to_chunks: fragments, raw segments, dynamic_k
    evidence,         \* one run of is_low_quality_text or format_evidence: input and output
    sampling,         \* one run of the summary's text preparation: chunks and sampled text
    lookup,           \* the last sequential get_structured_docs call and who stored each key
    sanitizing        \* one run of the embedding wrapper: the provider's vectors and its own

vars == <<program, sessions, mv_history, retrieval_cache, last, turn_log,
          summary_asked, mv_processed, ops, threads, retrieval_locks,
          validation, ingestion, evidence, sampling, lookup, sanitizing>>

\* The variables of the request handlers, of the concurrent callers of the
\* retrieval cache, and of the runs of the two pure ingestion functions.
handlerVars == <<program, sessions, mv_history, last, turn_log, summary_asked,
                 mv_processed, ops>>
threadVars == <<threads, retrieval_locks>>
unitVars == <<validation, ingestion, evidence, sampling, lookup, sanitizing>>

---------------------------------------------------------------------------
(* Bounds and input sets *)

MaxOps == 2

SessionIds == {"s1", "s2"}
NoId == ""

IdTokens == {"A", "B"}
VideoIds == {<<t>> : t \in IdTokens}

\* URL forms as token sequences: a watch URL, a short URL and a bare id.
WatchUrl(t) == <<"https:", "/", "/", "www.youtube.com", "/", "watch?", "v=", t>>
ShortUrl(t) == <<"https:", "/", "/", "youtu.be", "/", t>>
BareId(t) == <<t>>
Urls == {WatchUrl("A"), BareId("A"), ShortUrl("B")}

Messages == {<<"q1">>}
Texts == {<<"t1">>, <<"t2">>}

None == <<>>
NA == "NA"

Min(a, b) == IF a < b THEN a ELSE b
Max(a, b) == IF a > b THEN a ELSE b

---------------------------------------------------------------------------
(* transcript.py *)

\* re.search(r"(?:v=|\/|be\/)([0-9A-Za-z_-]{11})", url): the first position
\* where a prefix token is followed by an 11-character id; the input itself
\* when there is none.
extract_video_id(url_or_id) ==
    LET hits == {i \in 1..(Len(url_or_id) - 1) :
                    /\ url_or_id[i] \in {"v=", "/", "be/"}
                    /\ url_or_id[i + 1] \in IdTokens}
    IN IF hits = {} THEN url_or_id
       ELSE <<url_or_id[(CHOOSE i \in hits : \A j \in hits : i <= j) + 1]>>

\* The metadata service returns the snippet ("ok") or fails ("raise"); every
\* failure is caught and degrades to the "Unknown" placeholders.  In the
\* environment of a run the service knows video A only; video A's transcript
\* is cut into 3 chunks and video B's into 25.
MetadataOutcomeOf(video_id) == IF video_id = <<"A">> THEN "ok" ELSE "raise"
NumChunksOf(video_id) == IF video_id = <<"A">> THEN 3 ELSE 25

fetch_video_metadata(video_id, mo) ==
    IF mo = "ok"
    THEN [video_id |-> video_id, title |-> <<"Title of ">> \o video_id]
    ELSE [video_id |-> video_id, title |-> <<"Unknown">>]

\* The transcript service: the outcome of api.fetch and, when it returns
\* fragments, the number of chunks the splitter cuts them into.
TranscriptFailures == {"TranscriptsDisabled", "NoTranscriptFound", "Exception"}
TranscriptOutcomes(video_id) ==
    {[outcome |-> o, num_chunks |-> 0] : o \in TranscriptFailures}
    \cup {[outcome |-> "ok", num_chunks |-> NumChunksOf(video_id)]}

fetch_transcript_fragments(to) ==
    IF to.outcome = "ok" THEN to.num_chunks ELSE 0

\* int(math.log2(n) * 1.5): the largest k with 2^(2k) <= n^3.
FloorLog2Times15(n) ==
    CHOOSE k \in 0..40 : 2 ^ (2 * k) <= n * n * n /\ 2 ^ (2 * (k + 1)) > n * n * n

\* round(math.log2(n) * 1.5): the k with 2^(2k-1) <= n^3 <= 2^(2k+1), the
\* even one of the two when n^3 meets a bound.
RoundLog2Times15(n) ==
    LET up == CHOOSE k \in 0..40 : 2 ^ (2 * k) <= 2 * n * n * n /\ 2 ^ (2 * (k + 1)) > 2 * n * n * n
    IN IF 2 ^ (2 * up) = 2 * n * n * n /\ up % 2 = 1 THEN up - 1 ELSE up

\* Variant: dynamic_k from the rounded product.
DynamicKRounded(num_chunks) ==
    IF num_chunks < 20 THEN Min(num_chunks, 5)
    ELSE Max(5, Min(10, RoundLog2Times15(num_chunks)))

\* Variant: dynamic_k without the branch for fewer than 20 chunks.
DynamicKLogOnly(num_chunks) == Max(5, Min(10, FloorLog2Times15(num_chunks)))

DynamicK(num_chunks) ==
    IF num_chunks < 20 THEN Min(num_chunks, 5)
    ELSE Max(5, Min(10, FloorLog2Times15(num_chunks)))

\* Variant: dynamic_k always computed from the number of chunks.
ingest_video_to_chunks_no_floor(to) ==
    [chunks |-> fetch_transcript_fragments(to),
     dynamic_k |-> DynamicK(fetch_transcript_fragments(to))]

ingest_video_to_chunks(to) ==
    LET fragments == fetch_transcript_fragments(to)
    IN IF fragments = 0 THEN [chunks |-> 0, dynamic_k |-> 5]
       ELSE [chunks |-> fragments, dynamic_k |-> DynamicK(fragments)]

---------------------------------------------------------------------------
(* retriever.py *)

\* Embedding side of the index build: whether any chunk survives validation
\* and whether Chroma.from_documents (which embeds the validated chunks with
\* no try/except) returns or raises.
EmbeddingOutcomes ==
    {[validated |-> "none", index |-> NA],
     [validated |-> "some", index |-> "ok"],
     [validated |-> "some", index |-> "raise"]}

create_vectorstore_for_video(video_id, chunks, eo) ==
    IF eo.validated = "none"
    THEN [raised |-> FALSE, vectorstore |-> None,
          calls |-> << <<"validate">> \o video_id >>]
    ELSE IF eo.index = "raise"
    THEN [raised |-> TRUE, vectorstore |-> None,
          calls |-> << <<"validate">> \o video_id, <<"index_build">> \o video_id >>]
    ELSE [raised |-> FALSE, vectorstore |-> <<"youtube-">> \o video_id,
          calls |-> << <<"validate">> \o video_id, <<"index_build">> \o video_id >>]

\* A retrieved text, by the statistics is_low_quality_text reads: stripped
\* length, number of whitespace tokens, one-character tokens, tokens with no
\* letter or digit, a run of 3+ of , . ? !, and numeric-only tokens.
GoodText == [len |-> 40, ntok |-> 8, one_char |-> 1, non_alnum |-> 0,
             punct3 |-> FALSE, numeric |-> 0]
NoisyText == [len |-> 20, ntok |-> 8, one_char |-> 3, non_alnum |-> 0,
              punct3 |-> FALSE, numeric |-> 0]

\* Variant: a fraction at its threshold flags too.
is_low_quality_text_inclusive(s, min_len) ==
    \/ s.len = 0
    \/ s.len < min_len
    \/ s.ntok = 0
    \/ 100 * s.one_char >= 25 * Max(1, s.ntok)
    \/ 10 * s.non_alnum >= 4 * Max(1, s.ntok)
    \/ s.punct3
    \/ 10 * s.numeric >= 6 * Max(1, s.ntok)

is_low_quality_text(s, min_len) ==
    \/ s.len = 0
    \/ s.len < min_len
    \/ s.ntok = 0
    \/ 100 * s.one_char > 25 * Max(1, s.ntok)
    \/ 10 * s.non_alnum > 4 * Max(1, s.ntok)
    \/ s.punct3
    \/ 10 * s.numeric > 6 * Max(1, s.ntok)

DefaultMinLen == 15

Doc(vid, start, text) == [video_id |-> vid, start |-> start, text |-> text]

\* The decimal digits of a natural number.
RECURSIVE Digits(_)
Digits(n) == IF n < 10 THEN <<n>> ELSE Append(Digits(n \div 10), n % 10)

\* The format {n:02d}: at least two digits, a zero in front of one.
Pad2(n) == IF n < 10 THEN <<0, n>> ELSE Digits(n)

\* transcript.py sec_to_mmss: f"{m:02d}:{sec:02d}".
sec_to_mmss(s) == [mm |-> Pad2(s \div 60), ss |-> Pad2(s % 60)]

\* Variant: the quote cut to 280 characters with no ellipsis.
quote_of_cut(text) ==
    [len |-> Min(text.len, 280), from_content |-> Min(text.len, 280), ellipsis |-> FALSE]

\* content[:277] + "..." if len(content) > 280 else content: the quote's
\* length, how many leading characters of the content it holds, and whether
\* it ends with the three dots.
quote_of(text) ==
    IF text.len > 280
    THEN [len |-> 277 + 3, from_content |-> 277, ellipsis |-> TRUE]
    ELSE [len |-> text.len, from_content |-> text.len, ellipsis |-> FALSE]

\* f"[{ts}] {quote}" for a kept candidate.
evidence_line(d) == [ts |-> sec_to_mmss(d.start), quote |-> quote_of(d.text), of |-> d]

\* Variant: low-quality candidates are dropped whatever the flag says.
format_evidence_always_filtering(docs, filter_low_quality) ==
    LET keep(d) == ~is_low_quality_text(d.text, DefaultMinLen)
        kept_docs == SelectSeq(docs, keep)
    IN IF Len(docs) = 0
       THEN [text |-> <<"No transcript evidence found.">>, kept |-> 0, dropped |-> 0,
             lines |-> <<>>]
       ELSE IF Len(kept_docs) = 0
       THEN [text |-> <<"No good transcript evidence found">>,
             kept |-> 0, dropped |-> Len(docs), lines |-> <<>>]
       ELSE [text |-> <<"evidence">>, kept |-> Len(kept_docs),
             dropped |-> Len(docs) - Len(kept_docs),
             lines |-> [i \in 1..Len(kept_docs) |-> evidence_line(kept_docs[i])]]

\* format_evidence: the stats, the text returned (a sentinel, or "evidence"
\* for the joined lines) and the lines joined.
format_evidence(docs, filter_low_quality) ==
    LET keep(d) == ~(filter_low_quality /\ is_low_quality_text(d.text, DefaultMinLen))
        kept_docs == SelectSeq(docs, keep)
    IN IF Len(docs) = 0
       THEN [text |-> <<"No transcript evidence found.">>, kept |-> 0, dropped |-> 0,
             lines |-> <<>>]
       ELSE IF Len(kept_docs) = 0
       THEN [text |-> <<"No good transcript evidence found">>,
             kept |-> 0, dropped |-> Len(docs), lines |-> <<>>]
       ELSE [text |-> <<"evidence">>, kept |-> Len(kept_docs),
             dropped |-> Len(docs) - Len(kept_docs),
             lines |-> [i \in 1..Len(kept_docs) |-> evidence_line(kept_docs[i])]]

\* What the self-query retriever returns for a video: it raises, or a list.
RetrieverLists(vid) ==
    {<<Doc(vid, 0, NoisyText)>>,
     <<Doc(vid, 0, NoisyText), Doc(vid, 65, GoodText)>>}

RetrieverOutcomes(vid) ==
    {[kind |-> "raise", docs |-> <<>>]}
    \cup {[kind |-> "ok", docs |-> l] : l \in RetrieverLists(vid)}
NoRetrieval == [kind |-> NA, docs |-> <<>>]

---------------------------------------------------------------------------
(* Collaborator outcomes of one ingestion (metadata, transcript, embedding) *)

NoEmbedding == [validated |-> NA, index |-> NA]
IngestOutcomes(video_id) ==
    UNION {{[meta |-> MetadataOutcomeOf(video_id), transcript |-> t, embedding |-> e] :
              e \in IF t.num_chunks = 0 THEN {NoEmbedding} ELSE EmbeddingOutcomes} :
           t \in TranscriptOutcomes(video_id)}

\* The completion provider: it raises, or returns a text.
CompletionOutcomes ==
    {[kind |-> "raise", text |-> <<>>]} \cup {[kind |-> "ok", text |-> t] : t \in Texts}

\* The classifier call: the provider raises, answers something the parser
\* rejects, or answers one of the four labels.
ClassifierOutcomes == {"raise", "unparsable", "SUMMARY", "RAG", "COMPARE", "DUAL_SUMMARY"}
BackendClassifierOutcomes == ClassifierOutcomes \ {"DUAL_SUMMARY"}

---------------------------------------------------------------------------
(* pipeline.py *)

EmptySession == [history |-> <<>>, processed_videos |-> <<>>, summary_cache |-> <<>>]

\* Variant: the session is created anew even when the id exists.
get_or_create_session_reset(S, session_id, new_uuid) ==
    LET new_id == IF session_id # NoId THEN session_id ELSE new_uuid
    IN [sessions |-> (new_id :> EmptySession) @@ S, id |-> new_id]

get_or_create_session(S, session_id, new_uuid) ==
    IF session_id # NoId /\ session_id \in DOMAIN S
    THEN [sessions |-> S, id |-> session_id]
    ELSE LET new_id == IF session_id # NoId THEN session_id ELSE new_uuid
         IN [sessions |-> (new_id :> EmptySession) @@ S, id |-> new_id]

add_user_message(history, message) ==
    Append(history, [type |-> "human", content |-> message])
add_ai_message(history, message) ==
    Append(history, [type |-> "ai", content |-> message])

\* Router / Literal["SUMMARY", "RAG"]; MultiRouter adds COMPARE and DUAL_SUMMARY.
RouterLabels(multi_mode) ==
    IF multi_mode THEN {"SUMMARY", "RAG", "COMPARE", "DUAL_SUMMARY"}
    ELSE {"SUMMARY", "RAG"}

\* Variant: the classifier's outcome is passed on as it is.
get_intent_unchecked(co, multi_mode) == co

\* chain.invoke raises when the provider raises or the parser rejects the
\* answer (not JSON, or a route outside the Literal); get_intent catches it.

get_intent(co, multi_mode) ==
    IF co \in RouterLabels(multi_mode) THEN co ELSE "RAG"

\* What a turn did, for the properties: the classifier's outcome and the intent
\* taken, whether each processed video had an index, the evidence kept, the
\* context given to the evidence-based generation, the compare note.
NoTrace == [classifier |-> "none", intent |-> "none", index |-> <<>>, kept |-> -1,
            context |-> "none", kept_a |-> -1, kept_b |-> -1, note |-> FALSE]
NoResult == [response |-> <<>>, intent |-> "none", sources |-> <<>>]
NoProcessed == [video_id |-> None, metadata |-> [video_id |-> None, title |-> <<>>],
                chunks |-> 0, dynamic_k |-> 0, vectorstore |-> None]

Ret(S, raised, result, calls, trace) ==
    [sessions |-> S, raised |-> raised, result |-> result, calls |-> calls,
     trace |-> trace]

\* Every operation below is the set of outcomes the code can produce, one
\* for every way its collaborators can answer.

\* The ingestion half of process_video (lines 217-229) for one answer of the
\* collaborators: metadata, transcript and chunking, validation and index build.
ProcessNew(video_id, ie) ==
    LET ing == ingest_video_to_chunks(ie.transcript)
        fetches == << <<"metadata">> \o video_id, <<"transcript">> \o video_id >>
        vs == IF ing.chunks > 0
              THEN create_vectorstore_for_video(video_id, ing.chunks, ie.embedding)
              ELSE [raised |-> FALSE, vectorstore |-> None, calls |-> <<>>]
    IN [raised |-> IF vs.raised THEN "IndexBuildError" ELSE "none",
        calls |-> fetches \o vs.calls,
        result |-> IF vs.raised THEN NoProcessed
                   ELSE [video_id |-> video_id,
                         metadata |-> fetch_video_metadata(video_id, ie.meta),
                         chunks |-> ing.chunks, dynamic_k |-> ing.dynamic_k,
                         vectorstore |-> vs.vectorstore]]

\* session["processed_videos"][video_id] = result, unless the index build raised.
StoreProcessed(S, session_id, video_id, n) ==
    Ret(IF n.raised = "none"
        THEN [S EXCEPT ![session_id].processed_videos = (video_id :> n.result) @@ @]
        ELSE S,
        n.raised, n.result, n.calls, NoTrace)

\* Variant: a stored record without chunks or index is processed again.
process_video_retrying_unindexed(S, session_id, video_url) ==
    IF session_id \notin DOMAIN S
    THEN {Ret(S, "KeyError", NoProcessed, <<>>, NoTrace)}
    ELSE IF /\ extract_video_id(video_url) \in DOMAIN S[session_id].processed_videos
            /\ S[session_id].processed_videos[extract_video_id(video_url)].chunks > 0
            /\ S[session_id].processed_videos[extract_video_id(video_url)].vectorstore # None
    THEN {Ret(S, "none", S[session_id].processed_videos[extract_video_id(video_url)],
              <<>>, NoTrace)}
    ELSE {StoreProcessed(S, session_id, extract_video_id(video_url),
                         ProcessNew(extract_video_id(video_url), ie)) :
            ie \in IngestOutcomes(extract_video_id(video_url))}

process_video(S, session_id, video_url) ==
    IF session_id \notin DOMAIN S
    THEN {Ret(S, "KeyError", NoProcessed, <<>>, NoTrace)}
    ELSE IF extract_video_id(video_url) \in DOMAIN S[session_id].processed_videos
    THEN {Ret(S, "none", S[session_id].processed_videos[extract_video_id(video_url)],
              <<>>, NoTrace)}
    ELSE {StoreProcessed(S, session_id, extract_video_id(video_url),
                         ProcessNew(extract_video_id(video_url), ie)) :
            ie \in IngestOutcomes(extract_video_id(video_url))}

\* _get_universal_summary: one completion call, not guarded by any try.
_get_universal_summary(chunks, metadata, go) ==
    [raised |-> go.kind # "ok", text |-> go.text]

ErrorResult(response) == [response |-> response, intent |-> "ERROR", sources |-> <<>>]

\* Variant: an error text that does not name the video.
TranscriptNotAvailableNoId(video_id) == <<"Transcript not available.">>

TranscriptNotAvailable(video_id) ==
    <<"Transcript not available for video ">> \o video_id
        \o <<". Please provide a video with captions.">>

good_docs_of(retrieved_docs) ==
    LET good(d) == ~is_low_quality_text(d.text, DefaultMinLen)
    IN SelectSeq(retrieved_docs, good)

Sources(good_docs, video_id) ==
    [i \in 1..Min(3, Len(good_docs)) |->
        [timestamp |-> good_docs[i].start, video_id |-> video_id]]

\* Variant: the assistant message is appended before the user message.
ExchangeSwapped(history, user_message, ai_message) ==
    add_user_message(add_ai_message(history, ai_message), user_message)

Exchange(history, user_message, ai_message) ==
    add_ai_message(add_user_message(history, user_message), ai_message)

\* Variant: a failed generation is recorded in the history.
ChatRagGenerateLogged(S, session_id, video_id, message, good_docs, go, calls, tr) ==
    Ret([S EXCEPT ![session_id].history =
             add_ai_message(add_user_message(@, message),
                            IF go.kind = "ok" THEN go.text
                            ELSE <<"Error generating an answer.">>)],
        "none",
        IF go.kind = "ok"
        THEN [response |-> go.text, intent |-> "RAG", sources |-> <<>>]
        ELSE [response |-> <<"Error generating an answer.">>, intent |-> "ERROR",
              sources |-> <<>>],
        calls, tr)

\* The generation step of the RAG branch (lines 288-315).
ChatRagGenerate(S, session_id, video_id, message, good_docs, go, calls, tr) ==
    IF go.kind # "ok"
    THEN Ret(S, "none", ErrorResult(<<"Error generating an answer.">>), calls, tr)
    ELSE Ret([S EXCEPT ![session_id].history = Exchange(@, message, go.text)],
             "none",
             [response |-> go.text, intent |-> "RAG",
              sources |-> Sources(good_docs, video_id)],
             calls, tr)

\* The RAG branch of chat_with_video (lines 268-315): the context is built from
\* the documents that pass the quality filter, with no branch on their number.
ChatRagRetrieved(S, session_id, video_id, message, ro, calls, tr) ==
    IF ro.kind # "ok"
    THEN {Ret(S, "none", ErrorResult(<<"Error retrieving relevant documents.">>),
              calls, tr)}
    ELSE {ChatRagGenerate(S, session_id, video_id, message, good_docs_of(ro.docs), go,
                          calls \o << <<"gen_rag">> \o video_id >>,
                          [tr EXCEPT !.kept = Len(good_docs_of(ro.docs)),
                                     !.context = IF Len(good_docs_of(ro.docs)) = 0
                                                 THEN "empty" ELSE "evidence"]) :
            go \in CompletionOutcomes}

chat_rag(S, session_id, video_id, message, calls, tr) ==
    UNION {ChatRagRetrieved(S, session_id, video_id, message, ro,
                            calls \o << <<"retrieve">> \o video_id >>, tr) :
             ro \in RetrieverOutcomes(video_id)}

\* The SUMMARY branch (lines 257-266) when the summary is not cached.
ChatSummaryNew(S, session_id, video_id, message, sum, calls, tr) ==
    IF sum.raised
    THEN Ret(S, "CompletionError", NoResult, calls, tr)
    ELSE Ret([S EXCEPT ![session_id].summary_cache = (video_id :> sum.text) @@ @,
                       ![session_id].history = Exchange(@, message, sum.text)],
             "none", [response |-> sum.text, intent |-> "SUMMARY", sources |-> <<>>],
             calls, tr)

chat_summary(S, session_id, video_id, processed, message, calls, tr) ==
    IF video_id \in DOMAIN S[session_id].summary_cache
    THEN {Ret([S EXCEPT ![session_id].history =
                   Exchange(@, message, S[session_id].summary_cache[video_id])],
              "none",
              [response |-> S[session_id].summary_cache[video_id], intent |-> "SUMMARY",
               sources |-> <<>>],
              calls, tr)}
    ELSE {ChatSummaryNew(S, session_id, video_id, message,
                         _get_universal_summary(processed.chunks, processed.metadata, go),
                         calls \o << <<"gen_summary">> \o video_id >>, tr) :
            go \in CompletionOutcomes}

\* chat_with_video after get_intent (lines 253-315).
ChatRouted(S, session_id, video_id, processed, message, co, calls) ==
    IF get_intent(co, FALSE) = "SUMMARY"
    THEN chat_summary(S, session_id, video_id, processed, message, calls,
                      [NoTrace EXCEPT !.classifier = co, !.intent = "SUMMARY",
                                      !.index = <<TRUE>>])
    ELSE chat_rag(S, session_id, video_id, message, calls,
                  [NoTrace EXCEPT !.classifier = co, !.intent = get_intent(co, FALSE),
                                  !.index = <<TRUE>>])

\* chat_with_video after process_video returned or raised (lines 241-315).
ChatProcessed(p, session_id, video_id, message) ==
    IF p.raised # "none"
    THEN {Ret(p.sessions, p.raised, NoResult, p.calls, NoTrace)}
    ELSE IF p.result.chunks = 0 \/ p.result.vectorstore = None
    THEN {Ret(p.sessions, "none", ErrorResult(TranscriptNotAvailable(video_id)),
              p.calls, [NoTrace EXCEPT !.index = <<FALSE>>])}
    ELSE UNION {ChatRouted(p.sessions, session_id, video_id, p.result, message, co,
                           p.calls \o << <<"classify">> >>) :
                  co \in BackendClassifierOutcomes}

chat_with_video(S, session_id, video_url, message) ==
    UNION {ChatProcessed(p, session_id, extract_video_id(video_url), message) :
             p \in process_video(S, session_id, video_url)}

SummaryResult(summary, metadata) == [summary |-> summary, video_info |-> metadata]

\* summarize_video when the summary is not cached (lines 333-334).
SummarizeNew(S, session_id, video_id, metadata, sum, calls) ==
    IF sum.raised
    THEN Ret(S, "CompletionError", NoResult, calls, NoTrace)
    ELSE Ret([S EXCEPT ![session_id].summary_cache = (video_id :> sum.text) @@ @],
             "none", SummaryResult(sum.text, metadata), calls, NoTrace)

\* Variant: summarize_video without the summary_cache lookup.
SummarizeProcessedNoCache(p, session_id, video_id) ==
    IF p.raised # "none"
    THEN {Ret(p.sessions, p.raised, NoResult, p.calls, NoTrace)}
    ELSE IF p.result.chunks = 0
    THEN {Ret(p.sessions, "none",
              SummaryResult(<<"Transcript not available for video ">> \o video_id \o <<".">>,
                            p.result.metadata),
              p.calls, NoTrace)}
    ELSE {SummarizeNew(p.sessions, session_id, video_id, p.result.metadata,
                       _get_universal_summary(p.result.chunks, p.result.metadata, go),
                       p.calls \o << <<"gen_summary">> \o video_id >>) :
            go \in CompletionOutcomes}

\* summarize_video after process_video returned or raised (lines 323-339).
SummarizeProcessed(p, session_id, video_id) ==
    IF p.raised # "none"
    THEN {Ret(p.sessions, p.raised, NoResult, p.calls, NoTrace)}
    ELSE IF p.result.chunks = 0
    THEN {Ret(p.sessions, "none",
              SummaryResult(<<"Transcript not available for video ">> \o video_id \o <<".">>,
                            p.result.metadata),
              p.calls, NoTrace)}
    ELSE IF video_id \in DOMAIN p.sessions[session_id].summary_cache
    THEN {Ret(p.sessions, "none",
              SummaryResult(p.sessions[session_id].summary_cache[video_id],
                            p.result.metadata),
              p.calls, NoTrace)}
    ELSE {SummarizeNew(p.sessions, session_id, video_id, p.result.metadata,
                       _get_universal_summary(p.result.chunks, p.result.metadata, go),
                       p.calls \o << <<"gen_summary">> \o video_id >>) :
            go \in CompletionOutcomes}

summarize_video(S, session_id, video_url) ==
    UNION {SummarizeProcessed(p, session_id, extract_video_id(video_url)) :
             p \in process_video(S, session_id, video_url)}

CompareError(response) == [response |-> response, intent |-> "ERROR"]

\* One side's retrieval in compare_videos (lines 362-376): nothing when the
\* side has no index; a raise is swallowed and leaves "No evidence available.".
\* kept is -1 when there is no evidence text.
CompareEvidence(vs) ==
    IF vs = None THEN {[kept |-> -1, calls |-> <<>>]}
    ELSE {[kept |-> IF ro.kind = "ok" THEN format_evidence(ro.docs, TRUE).kept ELSE -1,
           calls |-> << <<"retrieve">> \o Tail(vs) >>] :
            ro \in RetrieverOutcomes(Tail(vs))}

\* The generation step of compare_videos (lines 402-414).
CompareGenerate(S, session_id, question, meta_a, meta_b, go, calls, tr) ==
    IF go.kind # "ok"
    THEN Ret(S, "none", CompareError(<<"Error during comparison.">>), calls, tr)
    ELSE Ret([S EXCEPT ![session_id].history = Exchange(@, question, go.text)],
             "none",
             [response |-> go.text, intent |-> "COMPARE",
              video_a |-> meta_a, video_b |-> meta_b],
             calls, tr)

\* Variant: compare_videos without the check that both indexes are missing.
CompareProcessedAlways(pa, pb, session_id, question) ==
    {CompareGenerate(pb.sessions, session_id, question,
                     pa.result.metadata, pb.result.metadata, go,
                     pa.calls \o pb.calls \o ea.calls \o eb.calls
                         \o << <<"gen_compare">> >>,
                     [NoTrace EXCEPT !.index = <<pa.result.vectorstore # None,
                                                 pb.result.vectorstore # None>>,
                                     !.kept_a = ea.kept, !.kept_b = eb.kept]) :
        ea \in CompareEvidence(pa.result.vectorstore),
        eb \in CompareEvidence(pb.result.vectorstore),
        go \in CompletionOutcomes}

\* Variant: compare_videos giving up as soon as either index is missing.
CompareProcessedEither(pa, pb, session_id, question) ==
    IF pa.result.vectorstore = None \/ pb.result.vectorstore = None
    THEN {Ret(pb.sessions, "none",
              CompareError(<<"Transcripts missing for both videos. Cannot compare.">>),
              pa.calls \o pb.calls,
              [NoTrace EXCEPT !.index = <<pa.result.vectorstore # None,
                                          pb.result.vectorstore # None>>])}
    ELSE CompareProcessedAlways(pa, pb, session_id, question)

\* compare_videos after both process_video calls returned (lines 350-414).
CompareProcessed(pa, pb, session_id, question) ==
    IF pa.result.vectorstore = None /\ pb.result.vectorstore = None
    THEN {Ret(pb.sessions, "none",
              CompareError(<<"Transcripts missing for both videos. Cannot compare.">>),
              pa.calls \o pb.calls, [NoTrace EXCEPT !.index = <<FALSE, FALSE>>])}
    ELSE {CompareGenerate(pb.sessions, session_id, question,
                          pa.result.metadata, pb.result.metadata, go,
                          pa.calls \o pb.calls \o ea.calls \o eb.calls
                              \o << <<"gen_compare">> >>,
                          [NoTrace EXCEPT !.index = <<pa.result.vectorstore # None,
                                                      pb.result.vectorstore # None>>,
                                          !.kept_a = ea.kept, !.kept_b = eb.kept]) :
            ea \in CompareEvidence(pa.result.vectorstore),
            eb \in CompareEvidence(pb.result.vectorstore),
            go \in CompletionOutcomes}

\* compare_videos after the first process_video call (lines 347-348).
CompareFirst(pa, session_id, url2, question) ==
    IF pa.raised # "none"
    THEN {Ret(pa.sessions, pa.raised, NoResult, pa.calls, NoTrace)}
    ELSE UNION {IF pb.raised # "none"
                THEN {Ret(pb.sessions, pb.raised, NoResult, pa.calls \o pb.calls, NoTrace)}
                ELSE CompareProcessed(pa, pb, session_id, question) :
                  pb \in process_video(pa.sessions, session_id, url2)}

compare_videos(S, session_id, url1, url2, question) ==
    UNION {CompareFirst(pa, session_id, url2, question) :
             pa \in process_video(S, session_id, url1)}

---------------------------------------------------------------------------
(* multiVideo.py *)

\* Questions of the two-video chat; the second names the second video.
MvMessages == {<<"q1">>, <<"q2", "second">>}

\* The (primary, secondary) inputs of a turn: two videos, one video under two
\* URL forms, and a missing secondary.
MvPairs == {<<WatchUrl("A"), ShortUrl("B")>>,
            <<BareId("A"), WatchUrl("A")>>,
            <<ShortUrl("B"), None>>}

\* re.search(r"(?:v=|\/)([0-9A-Za-z_-]{11}).*", url)
mv_extract_video_id(url_or_id) ==
    LET hits == {i \in 1..(Len(url_or_id) - 1) :
                    /\ url_or_id[i] \in {"v=", "/"}
                    /\ url_or_id[i + 1] \in IdTokens}
    IN IF hits = {} THEN url_or_id
       ELSE <<url_or_id[(CHOOSE i \in hits : \A j \in hits : i <= j) + 1]>>

MvRet(history, cache, raised, result, calls, trace) ==
    [history |-> history, cache |-> cache, raised |-> raised, result |-> result,
     calls |-> calls, trace |-> trace]

MvResult(intent, response) == [intent |-> intent, response |-> response, meta |-> <<>>]

\* No memo: every call fetches the metadata and the transcript again.
process_and_store_video(video_url_or_id) ==
    {ProcessNew(mv_extract_video_id(video_url_or_id), ie) :
        ie \in IngestOutcomes(mv_extract_video_id(video_url_or_id))}

Indexed(processed) == processed.chunks # 0 /\ processed.vectorstore # None

MvTranscriptNotAvailable(video_id) ==
    <<"Transcript not available for video ">> \o video_id
        \o <<". Please enable captions or provide a transcript.">>

\* The metadata-only fallback (lines 674-700): the completion call is outside
\* any try.
AnswerFallback(history, cache, user_question, go, calls, tr) ==
    IF go.kind # "ok"
    THEN MvRet(history, cache, "CompletionError", NoResult, calls, tr)
    ELSE MvRet(Exchange(history, user_question, go.text), cache, "none",
               MvResult("RAG", go.text), calls, tr)

\* The evidence-based generation (lines 702-724).
AnswerGenerate(history, cache, user_question, go, calls, tr) ==
    IF go.kind # "ok"
    THEN MvRet(history, cache, "none", MvResult("RAG", <<"Error generating an answer.">>),
               calls, tr)
    ELSE MvRet(Exchange(history, user_question, go.text), cache, "none",
               MvResult("RAG", go.text), calls, tr)

\* answer_question_single after the retrieval (lines 661-724).
AnswerRetrieved(history, cache, video_id, user_question, ro, calls, tr) ==
    IF ro.kind # "ok"
    THEN {MvRet(history, cache, "none",
                MvResult("RAG", <<"Error retrieving relevant documents.">>), calls, tr)}
    ELSE IF format_evidence(ro.docs, TRUE).kept = 0
    THEN {AnswerFallback(history, cache, user_question, go,
                         calls \o << <<"gen_fallback">> \o video_id >>,
                         [tr EXCEPT !.kept = 0, !.context = "metadata"]) :
            go \in CompletionOutcomes}
    ELSE {AnswerGenerate(history, cache, user_question, go,
                         calls \o << <<"gen_rag">> \o video_id >>,
                         [tr EXCEPT !.kept = format_evidence(ro.docs, TRUE).kept,
                                    !.context = "evidence"]) :
            go \in CompletionOutcomes}

\* answer_question_single after process_and_store_video (lines 651-724).
AnswerProcessed(history, cache, p, user_question, calls, tr) ==
    IF p.raised # "none"
    THEN {MvRet(history, cache, p.raised, NoResult, calls \o p.calls, tr)}
    ELSE IF ~Indexed(p.result)
    THEN {MvRet(history, cache, "none",
                MvResult("RAG", MvTranscriptNotAvailable(p.result.video_id)),
                calls \o p.calls, [tr EXCEPT !.index = <<FALSE>>])}
    ELSE UNION {AnswerRetrieved(history, cache, p.result.video_id, user_question, ro,
                                calls \o p.calls \o << <<"retrieve_a">> \o p.result.video_id >>,
                                [tr EXCEPT !.index = <<TRUE>>]) :
                  ro \in RetrieverOutcomes(p.result.video_id)}

\* The result's intent is the one handle_user_query reports.
answer_question_single(history, cache, video_url_or_id, user_question, calls, tr) ==
    UNION {AnswerProcessed(history, cache, p, user_question, calls, tr) :
             p \in process_and_store_video(video_url_or_id)}

\* The cache key f"{vectorstore_id}__{user_query}".
CacheKey(vectorstore_id, user_query) == vectorstore_id \o <<"__">> \o user_query

Take(seq, k) == SubSeq(seq, 1, Min(k, Len(seq)))

\* The dedupe loop of get_structured_docs: the first document of every
\* (video_id, int(start)) key, in order, at most k of them.
DedupeAndTrim(docs, k) ==
    LET first(i) == \A j \in 1..(i - 1) :
                        <<docs[j].video_id, docs[j].start>> # <<docs[i].video_id, docs[i].start>>
        idx == {i \in 1..Len(docs) : first(i)}
        nth(n) == CHOOSE i \in idx : Cardinality({j \in idx : j < i}) = n - 1
    IN Take([n \in 1..Cardinality(idx) |-> docs[nth(n)]], k)

TopK == 5

\* The lock holder's path of get_structured_docs (lines 761-787): every
\* retrieval failure is caught and leaves docs = [].
Retrieved(cache, cache_key, ro, k, calls) ==
    [cache |-> (cache_key :> DedupeAndTrim(IF ro.kind = "ok" THEN ro.docs ELSE <<>>, k))
                   @@ cache,
     docs |-> DedupeAndTrim(IF ro.kind = "ok" THEN ro.docs ELSE <<>>, k),
     calls |-> calls]

\* get_structured_docs when no other thread holds the key's lock: a cache hit,
\* or the lock holder's path.  A retriever of None raises AttributeError on
\* both attempts, which is caught like any retrieval failure.
get_structured_docs(cache, vectorstore_id, has_retriever, user_query, k, side) ==
    IF CacheKey(vectorstore_id, user_query) \in DOMAIN cache
    THEN {[cache |-> cache, docs |-> Take(cache[CacheKey(vectorstore_id, user_query)], k),
           calls |-> <<>>]}
    ELSE IF ~has_retriever
    THEN {Retrieved(cache, CacheKey(vectorstore_id, user_query), NoRetrieval, k, <<>>)}
    ELSE {Retrieved(cache, CacheKey(vectorstore_id, user_query), ro, k,
                    << <<side>> \o Tail(vectorstore_id) >>) :
            ro \in RetrieverOutcomes(Tail(vectorstore_id))}

InsufficientCompare ==
    <<"INSUFFICIENT_DATA", ": Transcripts missing for both videos. ",
      "Please provide videos with captions or transcripts.">>
InsufficientSummary ==
    <<"INSUFFICIENT_DATA", ": Transcripts missing for both videos. Cannot summarize.">>

\* The generation step of compare_videos (lines 854-861).
MvCompareGenerate(history, cache, user_question, go, calls, tr) ==
    IF go.kind # "ok"
    THEN MvRet(history, cache, "none",
               MvResult("COMPARE", <<"Error: comparison model invocation failed.">>),
               calls, tr)
    ELSE MvRet(Exchange(history, user_question, go.text), cache, "none",
               MvResult("COMPARE", go.text), calls, tr)

\* compare_videos after both retrievals (lines 822-861): the note is added
\* when either side kept no evidence.
MvCompareRetrieved(history, ga, gb, user_question, calls, tr) ==
    {MvCompareGenerate(history, gb.cache, user_question, go,
                       calls \o ga.calls \o gb.calls \o << <<"gen_compare">> >>,
                       [tr EXCEPT !.kept_a = format_evidence(ga.docs, TRUE).kept,
                                  !.kept_b = format_evidence(gb.docs, TRUE).kept,
                                  !.note = \/ format_evidence(ga.docs, TRUE).kept = 0
                                           \/ format_evidence(gb.docs, TRUE).kept = 0]) :
        go \in CompletionOutcomes}

\* compare_videos after the first retrieval (line 820).
MvCompareSecond(history, ga, proc_b, user_question, top_k, calls, tr) ==
    UNION {MvCompareRetrieved(history, ga, gb, user_question, calls, tr) :
             gb \in get_structured_docs(ga.cache, <<"youtube-">> \o proc_b.result.video_id,
                                        proc_b.result.vectorstore # None, user_question,
                                        top_k, "retrieve_b")}

\* compare_videos after both videos were processed (lines 801-861).
MvCompareProcessed(history, cache, proc_a, proc_b, user_question, top_k, calls, tr) ==
    IF ~Indexed(proc_a.result) /\ ~Indexed(proc_b.result)
    THEN {MvRet(history, cache, "none", MvResult("COMPARE", InsufficientCompare), calls, tr)}
    ELSE UNION {MvCompareSecond(history, ga, proc_b, user_question, top_k, calls, tr) :
                  ga \in get_structured_docs(cache, <<"youtube-">> \o proc_a.result.video_id,
                                             proc_a.result.vectorstore # None,
                                             user_question, top_k, "retrieve_a")}

\* What follows the two process_and_store_video calls that open both
\* compare_videos (lines 798-799) and the DUAL_SUMMARY branch (lines 930-931).
BothProcessed(video_a_url_or_id, video_b_url_or_id) ==
    UNION {IF proc_a.raised # "none"
           THEN {<<proc_a, proc_a>>}
           ELSE {<<proc_a, proc_b>> : proc_b \in process_and_store_video(video_b_url_or_id)} :
             proc_a \in process_and_store_video(video_a_url_or_id)}

PairRaised(pp) == IF pp[1].raised # "none" THEN pp[1].raised ELSE pp[2].raised
PairCalls(pp) == IF pp[1].raised # "none" THEN pp[1].calls ELSE pp[1].calls \o pp[2].calls
PairIndex(pp) == <<Indexed(pp[1].result), Indexed(pp[2].result)>>

mv_compare_videos(history, cache, video_a_url_or_id, video_b_url_or_id, user_question, top_k, calls, tr) ==
    UNION {IF PairRaised(pp) # "none"
           THEN {MvRet(history, cache, PairRaised(pp), NoResult, calls \o PairCalls(pp), tr)}
           ELSE MvCompareProcessed(history, cache, pp[1], pp[2], user_question, top_k,
                                   calls \o PairCalls(pp),
                                   [tr EXCEPT !.index = PairIndex(pp)]) :
             pp \in BothProcessed(video_a_url_or_id, video_b_url_or_id)}

\* get_dual_video_summary: one completion call, not guarded by any try.
get_dual_video_summary(chunks_a, chunks_b, go) ==
    [raised |-> go.kind # "ok", text |-> go.text]

\* The DUAL_SUMMARY branch after the summary call (lines 943-946).
DualSummarized(history, cache, user_query, dual, calls, tr) ==
    IF dual.raised
    THEN MvRet(history, cache, "CompletionError", NoResult, calls, tr)
    ELSE MvRet(Exchange(history, user_query, dual.text), cache, "none",
               MvResult("DUAL_SUMMARY", dual.text), calls, tr)

\* The DUAL_SUMMARY branch after both videos were processed (lines 932-946):
\* the INSUFFICIENT_DATA answer is appended to the history.
DualProcessed(history, cache, pp, user_query, calls, tr) ==
    IF PairRaised(pp) # "none"
    THEN {MvRet(history, cache, PairRaised(pp), NoResult, calls \o PairCalls(pp), tr)}
    ELSE IF ~Indexed(pp[1].result) /\ ~Indexed(pp[2].result)
    THEN {MvRet(Exchange(history, user_query, InsufficientSummary), cache, "none",
                MvResult("DUAL_SUMMARY", InsufficientSummary), calls \o PairCalls(pp),
                [tr EXCEPT !.index = PairIndex(pp)])}
    ELSE {DualSummarized(history, cache, user_query,
                         get_dual_video_summary(pp[1].result.chunks, pp[2].result.chunks, go),
                         calls \o PairCalls(pp) \o << <<"gen_dual">> >>,
                         [tr EXCEPT !.index = PairIndex(pp)]) :
            go \in CompletionOutcomes}

\* RouterModel / Literal["SUMMARY", "RAG", "COMPARE", "DUAL_SUMMARY"]
mv_get_intent(co) ==
    IF co \in {"SUMMARY", "RAG", "COMPARE", "DUAL_SUMMARY"} THEN co ELSE "RAG"

\* any(tok in q for tok in ["second", "video b", "video 2", "secondary"])
MentionsSecond(user_query) ==
    \E i \in 1..Len(user_query) : user_query[i] \in {"second", "video b", "video 2", "secondary"}

\* handle_user_query after get_intent (lines 929-959).
Routed(history, cache, primary, secondary, user_query, co) ==
    IF mv_get_intent(co) = "DUAL_SUMMARY"
    THEN UNION {DualProcessed(history, cache, pp, user_query, << <<"classify">> >>,
                              [NoTrace EXCEPT !.classifier = co, !.intent = "DUAL_SUMMARY"]) :
                  pp \in BothProcessed(primary, secondary)}
    ELSE IF mv_get_intent(co) = "COMPARE"
    THEN mv_compare_videos(history, cache, primary, secondary, user_query, TopK,
                           << <<"classify">> >>,
                           [NoTrace EXCEPT !.classifier = co, !.intent = "COMPARE"])
    ELSE answer_question_single(history, cache,
                                IF MentionsSecond(user_query) THEN secondary ELSE primary,
                                user_query, << <<"classify">> >>,
                                [NoTrace EXCEPT !.classifier = co,
                                                !.intent = mv_get_intent(co)])

handle_user_query(history, cache, primary, secondary, user_query) ==
    IF primary = None \/ secondary = None
    THEN {MvRet(history, cache, "none",
                MvResult("ERROR", <<"Both primary and secondary video URLs/IDs are required for this MVP.">>),
                <<>>, NoTrace)}
    ELSE UNION {Routed(history, cache, primary, secondary, user_query, co) :
                  co \in ClassifierOutcomes}

---------------------------------------------------------------------------
(* routes/video.py: the endpoints *)

Called(kinds, calls) == \E i \in 1..Len(calls) : calls[i][1] \in kinds
GenKinds == {"gen_summary", "gen_rag", "gen_fallback", "gen_compare", "gen_dual"}
IngestKinds == {"metadata", "transcript", "validate", "index_build"}

NoGocs == [arg |-> NoId, ret |-> NoId, existed |-> FALSE, snapshot |-> EmptySession]
NoLast == [op |-> "none", sid |-> NoId, vids |-> <<>>, message |-> <<>>,
           raised |-> "none", result |-> NoResult, calls |-> <<>>,
           trace |-> NoTrace, known |-> {}, gocs |-> NoGocs]

\* What get_or_create_session did at the head of a handler.
Gocs(S, arg, g) ==
    [arg |-> arg, ret |-> g.id, existed |-> (arg \in DOMAIN S),
     snapshot |-> g.sessions[g.id]]

Known(S, sid) == IF sid \in DOMAIN S THEN DOMAIN S[sid].processed_videos ELSE {}

\* Session ids are opaque: the first id ever used is "s1", the next "s2".
SessionOrder == <<"s1", "s2">>
NextIds ==
    LET unused == {i \in 1..Len(SessionOrder) : SessionOrder[i] \notin DOMAIN sessions}
    IN IF unused = {} THEN {}
       ELSE {SessionOrder[CHOOSE i \in unused : \A j \in unused : i <= j]}
\* A request names an existing session, a new one, or none.
RequestIdsNow == DOMAIN sessions \cup NextIds \cup {NoId}
\* uuid.uuid4(): an id no session has.
FreshIds(rid) == IF rid = NoId THEN NextIds ELSE {NoId}

SuccessfulTurn(op, r) ==
    /\ op \in {"chat", "compare"}
    /\ r.raised = "none"
    /\ r.result.intent \in {"SUMMARY", "RAG", "COMPARE"}

\* The state after a backend handler that called the pipeline with session
\* id `sid`, after get_or_create_session(arg) returned `g`, with outcome `r`.
Commit(op, arg, sid, g, vids, message, r) ==
    /\ sessions' = r.sessions
    /\ last' = [op |-> op, sid |-> sid, vids |-> vids, message |-> message,
                raised |-> r.raised, result |-> r.result, calls |-> r.calls,
                trace |-> r.trace, known |-> Known(g.sessions, sid),
                gocs |-> Gocs(sessions, arg, g)]
    /\ turn_log' = IF SuccessfulTurn(op, r)
                   THEN [turn_log EXCEPT ![sid] =
                            Append(@, [user |-> message, ai |-> r.result.response])]
                   ELSE turn_log
    /\ summary_asked' =
            [k \in DOMAIN summary_asked |->
                summary_asked[k]
                + Cardinality({j \in 1..Len(r.calls) :
                                  r.calls[j] = <<"gen_summary">> \o k[2] /\ k[1] = sid})]
    /\ ops' = ops + 1
    /\ UNCHANGED <<program, mv_history, retrieval_cache, mv_processed>>
    /\ UNCHANGED <<threadVars, unitVars>>

\* POST /api/process
process_video_endpoint ==
    /\ program = "backend" /\ ops < MaxOps
    /\ \E url \in Urls, uuid \in FreshIds(NoId) :
       \E g \in {get_or_create_session(sessions, NoId, uuid)} :
       \E r \in process_video(g.sessions, g.id, url) :
          Commit("process", NoId, g.id, g, <<extract_video_id(url)>>, <<>>, r)

\* POST /api/chat
chat_endpoint ==
    /\ program = "backend" /\ ops < MaxOps
    /\ \E sid \in RequestIdsNow, url \in Urls, message \in Messages :
       \E uuid \in FreshIds(sid) :
       \E g \in {get_or_create_session(sessions, sid, uuid)} :
       \E r \in chat_with_video(g.sessions, sid, url, message) :
          Commit("chat", sid, sid, g, <<extract_video_id(url)>>, message, r)

\* POST /api/summary
summary_endpoint ==
    /\ program = "backend" /\ ops < MaxOps
    /\ \E sid \in RequestIdsNow, url \in Urls :
       \E uuid \in FreshIds(sid) :
       \E g \in {get_or_create_session(sessions, sid, uuid)} :
       \E r \in summarize_video(g.sessions, sid, url) :
          Commit("summarize", sid, sid, g, <<extract_video_id(url)>>, <<>>, r)

\* POST /api/compare
compare_endpoint ==
    /\ program = "backend" /\ ops < MaxOps
    /\ \E sid \in RequestIdsNow, url1 \in Urls, url2 \in Urls, question \in Messages :
       \E uuid \in FreshIds(sid) :
       \E g \in {get_or_create_session(sessions, sid, uuid)} :
       \E r \in compare_videos(g.sessions, sid, url1, url2, question) :
          Commit("compare", sid, sid, g,
                 <<extract_video_id(url1), extract_video_id(url2)>>, question, r)

BackendNext ==
    \/ process_video_endpoint
    \/ chat_endpoint
    \/ summary_endpoint
    \/ compare_endpoint

\* The videos a turn processed to the end: those it fetched metadata for,
\* but for the one whose index build raised.
ProcessedBy(r) ==
    LET idx == {i \in 1..Len(r.calls) : r.calls[i][1] = "metadata"}
        failed == {i \in idx : r.raised = "IndexBuildError" /\ \A j \in idx : j <= i}
    IN {Tail(r.calls[i]) : i \in idx \ failed}

MvIds(pair) == [i \in 1..2 |-> IF pair[i] = None THEN None ELSE mv_extract_video_id(pair[i])]

\* One turn of chat_loop: handle_user_query(primary, secondary, query, history).
chat_loop ==
    /\ program = "multiVideo" /\ ops < MaxOps
    /\ \E pair \in MvPairs, user_query \in MvMessages :
       \E r \in handle_user_query(mv_history, retrieval_cache, pair[1], pair[2], user_query) :
          /\ mv_history' = r.history
          /\ retrieval_cache' = r.cache
          /\ mv_processed' = mv_processed \cup ProcessedBy(r)
          /\ last' = [op |-> "handle_user_query", sid |-> NoId, vids |-> MvIds(pair),
                      message |-> user_query, raised |-> r.raised, result |-> r.result,
                      calls |-> r.calls, trace |-> r.trace, known |-> mv_processed,
                      gocs |-> NoGocs]
          /\ ops' = ops + 1
          /\ UNCHANGED <<program, sessions, turn_log, summary_asked>>
          /\ UNCHANGED <<threadVars, unitVars>>

Init ==
    /\ program \in {"backend", "multiVideo"}
    /\ sessions = <<>>
    /\ mv_history = <<>>
    /\ retrieval_cache = <<>>
    /\ last = NoLast
    /\ turn_log = [s \in SessionIds |-> <<>>]
    /\ summary_asked = [k \in SessionIds \X VideoIds |-> 0]
    /\ mv_processed = {}
    /\ ops = 0
    /\ threads = <<>>
    /\ retrieval_locks = <<>>
    /\ validation = <<>>
    /\ ingestion = <<>>
    /\ evidence = <<>>
    /\ sampling = <<>>
    /\ lookup = <<>>
    /\ sanitizing = <<>>

Next == BackendNext \/ chat_loop

Spec == Init /\ [][Next]_vars

---------------------------------------------------------------------------
(* multiVideo.py: get_structured_docs called from several threads *)

\* Every thread makes at most MaxCalls calls, one after the other.
MaxCalls == 2
Threads == {"t1", "t2"}
NoThread == "free"

\* The keys f"{vectorstore_id}__{user_query}" the callers ask for, and the
\* bounds k they pass.
CacheKeys == {CacheKey(<<"youtube-", "A">>, <<"q1">>), CacheKey(<<"youtube-", "B">>, <<"q1">>)}
Ks == {1, 2}

\* What the retriever of a key's video answers: it raises, or one of two
\* candidate lists; the lists repeat a (video_id, start) pair within a list
\* and across lists.
CandidateLists(cache_key) ==
    {<<Doc(<<cache_key[2]>>, 0, GoodText), Doc(<<cache_key[2]>>, 0, NoisyText),
       Doc(<<cache_key[2]>>, 65, GoodText)>>,
     <<Doc(<<cache_key[2]>>, 65, GoodText), Doc(<<cache_key[2]>>, 0, GoodText)>>}
RetrieverAnswers(cache_key) ==
    {[kind |-> "raise", docs |-> <<>>]}
    \cup {[kind |-> "ok", docs |-> l] : l \in CandidateLists(cache_key)}

\* A thread between calls.  pc is the place in get_structured_docs; docs is
\* the local list (docs, then final or merged); result is what the last call
\* returned.  path, cached_at_start and retrieved record, for the call in
\* progress or last finished, the return statement taken, whether the key
\* was cached when the call started and whether it called the retriever.
IdleThread == [pc |-> "idle", cache_key |-> <<>>, k |-> 0, docs |-> <<>>,
               result |-> <<>>, calls |-> 0, path |-> "none",
               cached_at_start |-> FALSE, retrieved |-> FALSE]

\* Variant: a call that goes for the lock without looking into the cache.
first_check_skipped(cache, cache_key) == "acquire"

\* Line 733: if cache_key in retrieval_cache.
first_check(cache, cache_key) == IF cache_key \in DOMAIN cache THEN "hit" ELSE "acquire"

\* Variant: lock.acquire() that waits for the holder: no outcome while held.
acquire_blocking(locks, cache_key, t) ==
    IF locks[cache_key] = NoThread
    THEN {[acquired |-> TRUE, locks |-> [locks EXCEPT ![cache_key] = t]]}
    ELSE {}

\* Line 738: lock.acquire(blocking=False) returns at once, with or without
\* the lock.
acquire_nonblocking(locks, cache_key, t) ==
    IF locks[cache_key] = NoThread
    THEN {[acquired |-> TRUE, locks |-> [locks EXCEPT ![cache_key] = t]]}
    ELSE {[acquired |-> FALSE, locks |-> locks]}

\* Lines 747-754: the fallback path's dedupe loop keeps the first document
\* of every (video_id, start) pair and cuts nothing.
DedupeMerged(docs) == DedupeAndTrim(docs, Len(docs))

\* Lines 732-733: the call starts and looks the key up.
gsd_call(t, cache_key, k) ==
    /\ threads[t].pc = "idle"
    /\ threads[t].calls < MaxCalls
    /\ threads' = [threads EXCEPT ![t] =
                      [IdleThread EXCEPT !.pc = first_check(retrieval_cache, cache_key),
                                         !.cache_key = cache_key,
                                         !.k = k,
                                         !.calls = threads[t].calls + 1,
                                         !.cached_at_start =
                                              cache_key \in DOMAIN retrieval_cache]]
    /\ UNCHANGED <<retrieval_cache, retrieval_locks>>

\* Variant: a cache hit that returns the stored entry whole.
gsd_return_cached_untrimmed(t) ==
    /\ threads[t].pc \in {"hit", "fb_hit"}
    /\ threads' = [threads EXCEPT ![t].pc = "idle",
                                  ![t].path = threads[t].pc,
                                  ![t].result = retrieval_cache[threads[t].cache_key]]
    /\ UNCHANGED <<retrieval_cache, retrieval_locks>>

\* Lines 735 and 743: return retrieval_cache[cache_key][:k].
gsd_return_cached(t) ==
    /\ threads[t].pc \in {"hit", "fb_hit"}
    /\ threads' = [threads EXCEPT ![t].pc = "idle",
                                  ![t].path = threads[t].pc,
                                  ![t].result = Take(retrieval_cache[threads[t].cache_key],
                                                     threads[t].k)]
    /\ UNCHANGED <<retrieval_cache, retrieval_locks>>

\* Lines 737-739: the holder goes on to the retriever, anyone else to the
\* fallback.
gsd_acquire(t) ==
    /\ threads[t].pc = "acquire"
    /\ \E a \in acquire_nonblocking(retrieval_locks, threads[t].cache_key, t) :
          /\ retrieval_locks' = a.locks
          /\ threads' = [threads EXCEPT ![t].pc = IF a.acquired THEN "holder_retrieving"
                                                  ELSE "fb_check",
                                        ![t].retrieved = a.acquired]
    /\ UNCHANGED retrieval_cache

\* Line 742: the fallback looks the key up again, then calls the retriever.
gsd_fallback_check(t) ==
    /\ threads[t].pc = "fb_check"
    /\ threads' = [threads EXCEPT
                      ![t].pc = IF threads[t].cache_key \in DOMAIN retrieval_cache
                                THEN "fb_hit" ELSE "fb_retrieving",
                      ![t].retrieved = threads[t].cache_key \notin DOMAIN retrieval_cache]
    /\ UNCHANGED <<retrieval_cache, retrieval_locks>>

\* Lines 762-782: the holder's retriever call returns or raises twice (then
\* docs = []), and the loop dedupes and trims into final.
gsd_holder_retrieved(t) ==
    /\ threads[t].pc = "holder_retrieving"
    /\ \E ro \in RetrieverAnswers(threads[t].cache_key) :
          threads' = [threads EXCEPT ![t].pc = "holder_publish",
                                     ![t].docs = DedupeAndTrim(ro.docs, threads[t].k)]
    /\ UNCHANGED <<retrieval_cache, retrieval_locks>>

\* Line 783: retrieval_cache[cache_key] = final.
gsd_holder_publish(t) ==
    /\ threads[t].pc = "holder_publish"
    /\ retrieval_cache' = (threads[t].cache_key :> threads[t].docs) @@ retrieval_cache
    /\ threads' = [threads EXCEPT ![t].pc = "holder_release"]
    /\ UNCHANGED retrieval_locks

\* Variant: the holder returns with no finally clause, keeping the lock.
gsd_holder_return_unreleased(t) ==
    /\ threads[t].pc = "holder_release"
    /\ threads' = [threads EXCEPT ![t].pc = "idle", ![t].path = "holder",
                                  ![t].result = threads[t].docs]
    /\ UNCHANGED <<retrieval_cache, retrieval_locks>>

\* Lines 785-787: return final, the finally clause releasing the lock.
gsd_holder_release(t) ==
    /\ threads[t].pc = "holder_release"
    /\ retrieval_locks' = [retrieval_locks EXCEPT ![threads[t].cache_key] = NoThread]
    /\ threads' = [threads EXCEPT ![t].pc = "idle", ![t].path = "holder",
                                  ![t].result = threads[t].docs]
    /\ UNCHANGED retrieval_cache

\* Lines 744-754 and 757-759: the fallback's retriever call returns, and the
\* loop dedupes into merged; or it raises, and the call returns [].
gsd_fallback_retrieved(t) ==
    /\ threads[t].pc = "fb_retrieving"
    /\ \E ro \in RetrieverAnswers(threads[t].cache_key) :
          threads' = IF ro.kind = "ok"
                     THEN [threads EXCEPT ![t].pc = "fb_publish",
                                          ![t].docs = DedupeMerged(ro.docs)]
                     ELSE [threads EXCEPT ![t].pc = "idle", ![t].path = "fb_raise",
                                          ![t].result = <<>>]
    /\ UNCHANGED <<retrieval_cache, retrieval_locks>>

\* Variant: a fallback that appends its documents to the entry it finds.
gsd_fallback_publish_appending(t) ==
    /\ threads[t].pc = "fb_publish"
    /\ retrieval_cache' =
          (threads[t].cache_key :>
              (IF threads[t].cache_key \in DOMAIN retrieval_cache
               THEN retrieval_cache[threads[t].cache_key] ELSE <<>>)
              \o Take(threads[t].docs, threads[t].k))
          @@ retrieval_cache
    /\ threads' = [threads EXCEPT ![t].pc = "fb_return"]
    /\ UNCHANGED retrieval_locks

\* Line 755: retrieval_cache[cache_key] = merged[:k].
gsd_fallback_publish(t) ==
    /\ threads[t].pc = "fb_publish"
    /\ retrieval_cache' = (threads[t].cache_key :> Take(threads[t].docs, threads[t].k))
                              @@ retrieval_cache
    /\ threads' = [threads EXCEPT ![t].pc = "fb_return"]
    /\ UNCHANGED retrieval_locks

\* Line 756: return retrieval_cache[cache_key], read again from the dict.
gsd_fallback_return(t) ==
    /\ threads[t].pc = "fb_return"
    /\ threads' = [threads EXCEPT ![t].pc = "idle", ![t].path = "fallback",
                                  ![t].result = retrieval_cache[threads[t].cache_key]]
    /\ UNCHANGED <<retrieval_cache, retrieval_locks>>

\* The step a thread inside get_structured_docs takes next.
gsd_step(t) ==
    \/ gsd_return_cached(t)
    \/ gsd_acquire(t)
    \/ gsd_fallback_check(t)
    \/ gsd_holder_retrieved(t)
    \/ gsd_holder_publish(t)
    \/ gsd_holder_release(t)
    \/ gsd_fallback_retrieved(t)
    \/ gsd_fallback_publish(t)
    \/ gsd_fallback_return(t)

Call ==
    /\ \E t \in Threads, cache_key \in CacheKeys, k \in Ks : gsd_call(t, cache_key, k)
    /\ UNCHANGED <<handlerVars, unitVars>>
ReturnCached ==
    (\E t \in Threads : gsd_return_cached(t)) /\ UNCHANGED <<handlerVars, unitVars>>
Acquire ==
    (\E t \in Threads : gsd_acquire(t)) /\ UNCHANGED <<handlerVars, unitVars>>
FallbackCheck ==
    (\E t \in Threads : gsd_fallback_check(t)) /\ UNCHANGED <<handlerVars, unitVars>>
HolderRetrieved ==
    (\E t \in Threads : gsd_holder_retrieved(t)) /\ UNCHANGED <<handlerVars, unitVars>>
HolderPublish ==
    (\E t \in Threads : gsd_holder_publish(t)) /\ UNCHANGED <<handlerVars, unitVars>>
HolderRelease ==
    (\E t \in Threads : gsd_holder_release(t)) /\ UNCHANGED <<handlerVars, unitVars>>
FallbackRetrieved ==
    (\E t \in Threads : gsd_fallback_retrieved(t)) /\ UNCHANGED <<handlerVars, unitVars>>
FallbackPublish ==
    (\E t \in Threads : gsd_fallback_publish(t)) /\ UNCHANGED <<handlerVars, unitVars>>
FallbackReturn ==
    (\E t \in Threads : gsd_fallback_return(t)) /\ UNCHANGED <<handlerVars, unitVars>>

\* The handlers' and the pure functions' variables while another part of
\* the program is looked at.
HandlersIdle ==
    /\ program = "multiVideo"
    /\ sessions = <<>>
    /\ mv_history = <<>>
    /\ last = NoLast
    /\ turn_log = [s \in SessionIds |-> <<>>]
    /\ summary_asked = [k \in SessionIds \X VideoIds |-> 0]
    /\ mv_processed = {}
    /\ ops = 0
UnitsIdle ==
    /\ validation = <<>> /\ ingestion = <<>> /\ evidence = <<>> /\ sampling = <<>>
    /\ lookup = <<>>
    /\ sanitizing = <<>>
ThreadsIdle == retrieval_cache = <<>> /\ threads = <<>> /\ retrieval_locks = <<>>

CacheInit ==
    /\ HandlersIdle
    /\ UnitsIdle
    /\ retrieval_cache = <<>>
    /\ threads = [t \in Threads |-> IdleThread]
    /\ retrieval_locks = [cache_key \in CacheKeys |-> NoThread]

CacheNext ==
    \/ Call
    \/ ReturnCached
    \/ Acquire
    \/ FallbackCheck
    \/ HolderRetrieved
    \/ HolderPublish
    \/ HolderRelease
    \/ FallbackRetrieved
    \/ FallbackPublish
    \/ FallbackReturn

SpecCache == CacheInit /\ [][CacheNext]_vars

---------------------------------------------------------------------------
(* embeddings.py and multiVideo.py: validate_chunks_for_embeddings *)

\* The longest chunk list given to the validator.
MaxChunks == 3

\* len(content) < 15, and len(flat) < 100 (the backend's check only).
MinContentLen == 15
MinVectorLen == 100

\* Chunk texts by their lengths: as given, after strip(), after the control
\* characters are removed and the whitespace collapsed, and after NFKC.
\* "blank" is whitespace only, "short" is under 15 characters, "padded"
\* loses 4 characters of padding, "decomposed" is composed to a shorter
\* string by NFKC.
BlankText == [kind |-> "blank", raw |-> 3, stripped |-> 0, clean |-> 0, nfkc |-> 0]
ShortText == [kind |-> "short", raw |-> 10, stripped |-> 10, clean |-> 10, nfkc |-> 10]
PaddedText == [kind |-> "padded", raw |-> 24, stripped |-> 22, clean |-> 20, nfkc |-> 20]
DecomposedText == [kind |-> "decomposed", raw |-> 20, stripped |-> 20, clean |-> 20, nfkc |-> 19]

\* What the embedding provider does with one text: it raises on its first
\* `raises` calls for the text (on every call when dead) and then returns a
\* vector of `len` numbers, finite or not.
Vec(len, finite) == [len |-> len, finite |-> finite]
Behaviour(dead, raises, len, finite) ==
    [dead |-> dead, raises |-> raises, vec |-> Vec(len, finite)]
GoodEmbedding == Behaviour(FALSE, 0, 768, TRUE)
Behaviours ==
    {GoodEmbedding,
     Behaviour(FALSE, 0, 768, FALSE),
     Behaviour(FALSE, 0, 50, TRUE),
     Behaviour(FALSE, 0, 0, TRUE),
     Behaviour(FALSE, 1, 768, TRUE),
     Behaviour(FALSE, 3, 768, TRUE),
     Behaviour(TRUE, 0, 0, TRUE)}

\* A chunk: its text and what the provider does with that text.
Chunks ==
    {[text |-> t, embed |-> GoodEmbedding] : t \in {BlankText, ShortText}}
    \cup {[text |-> t, embed |-> b] : t \in {PaddedText, DecomposedText}, b \in Behaviours}

\* f[1] + ... + f[n].
RECURSIVE SumTo(_, _)
SumTo(f, n) == IF n = 0 THEN 0 ELSE f[n] + SumTo(f, n - 1)

RECURSIVE SeqsUpTo(_, _)
SeqsUpTo(S, n) ==
    IF n = 0 THEN {<<>>}
    ELSE SeqsUpTo(S, n - 1) \cup {Append(s, x) : s \in SeqsUpTo(S, n - 1), x \in S}

\* The provider's n-th call for a text.
raw_embed_query(b, n) ==
    IF b.dead \/ n <= b.raises THEN [raised |-> TRUE, vec |-> Vec(0, TRUE)]
    ELSE [raised |-> FALSE, vec |-> b.vec]

\* _sanitize_vector: every NaN/Inf entry becomes 0.0.
sanitize_vector(vec) == [vec EXCEPT !.finite = TRUE]

\* SafeOllamaEmbeddings.embed_query, starting with the provider's n-th call
\* for the text: two tries; after two failures the backend raises the last
\* exception and multiVideo returns [0.0].  used counts the provider calls.
embed_query(variant, b, n) ==
    IF ~raw_embed_query(b, n).raised
    THEN [raised |-> FALSE, vec |-> sanitize_vector(raw_embed_query(b, n).vec), used |-> 1]
    ELSE IF ~raw_embed_query(b, n + 1).raised
    THEN [raised |-> FALSE, vec |-> sanitize_vector(raw_embed_query(b, n + 1).vec),
          used |-> 2]
    ELSE IF variant = "backend"
    THEN [raised |-> TRUE, vec |-> Vec(0, TRUE), used |-> 2]
    ELSE [raised |-> FALSE, vec |-> Vec(1, TRUE), used |-> 2]

\* One attempt of the validator's loop: the vector must be non-empty, in the
\* backend at least 100 long, and finite.
embedding_accepted(variant, e) ==
    /\ ~e.raised
    /\ e.vec.len > 0
    /\ variant = "backend" => e.vec.len >= MinVectorLen
    /\ e.vec.finite

\* for attempt in range(2): the second attempt goes on where the first
\* one's provider calls ended.
embedding_success(variant, b) ==
    \/ embedding_accepted(variant, embed_query(variant, b, 1))
    \/ embedding_accepted(variant,
                          embed_query(variant, b, 1 + embed_query(variant, b, 1).used))

\* Variant: an embed_query exception leaves the validator.
embedding_attempts_unguarded(variant, b) ==
    [attempts |-> 1, calls |-> embed_query(variant, b, 1).used,
     raised |-> embed_query(variant, b, 1).raised]

\* The attempts of that loop for one text: how many embed_query calls the
\* validator makes, how many provider calls those make, and whether an
\* exception leaves the loop (`except Exception` catches every one).
embedding_attempts(variant, b) ==
    IF embedding_accepted(variant, embed_query(variant, b, 1))
    THEN [attempts |-> 1, calls |-> embed_query(variant, b, 1).used, raised |-> FALSE]
    ELSE [attempts |-> 2,
          calls |-> embed_query(variant, b, 1).used
                      + embed_query(variant, b, 1 + embed_query(variant, b, 1).used).used,
          raised |-> FALSE]

\* A validated chunk: the length of its content, the input chunks whose
\* content it holds, and the input chunk whose metadata it carries.
Validated(len, parts, meta) == [len |-> len, parts |-> parts, meta |-> meta]

\* Variant: a failed chunk is dropped instead of merged.
drop_failed(validated_chunks, i, len) == validated_chunks

\* Variant: the merged chunk takes the failed chunk's metadata.
merge_taking_metadata(validated_chunks, i, len) ==
    IF validated_chunks = <<>> THEN validated_chunks
    ELSE [validated_chunks EXCEPT
             ![Len(validated_chunks)] = Validated(@.len + 1 + len, Append(@.parts, i), i)]

\* The else branch: prev.page_content + " " + content replaces the last
\* validated chunk; with none the failed chunk is dropped.
merge_into_previous(validated_chunks, i, len) ==
    IF validated_chunks = <<>> THEN validated_chunks
    ELSE [validated_chunks EXCEPT
             ![Len(validated_chunks)] = Validated(@.len + 1 + len, Append(@.parts, i), @.meta)]

\* The loop of validate_chunks_for_embeddings from the i-th chunk on.
RECURSIVE validate_from(_, _, _, _)
validate_from(variant, chunks, i, validated_chunks) ==
    IF i > Len(chunks) THEN validated_chunks
    ELSE IF chunks[i].text.stripped = 0
    THEN validate_from(variant, chunks, i + 1, validated_chunks)
    ELSE IF chunks[i].text.clean < MinContentLen
    THEN validate_from(variant, chunks, i + 1, validated_chunks)
    ELSE IF embedding_success(variant, chunks[i].embed)
    THEN validate_from(variant, chunks, i + 1,
                       Append(validated_chunks, Validated(chunks[i].text.nfkc, <<i>>, i)))
    ELSE validate_from(variant, chunks, i + 1,
                       merge_into_previous(validated_chunks, i, chunks[i].text.nfkc))

validate_chunks_for_embeddings(variant, chunks) == validate_from(variant, chunks, 1, <<>>)

\* One run of the validator: which program's validator, the chunks, and what
\* the provider does with a merged text, which the validator never embeds:
\* "good", or "as_failed" (as with the failed text the merge ends with).
ValidateInit ==
    /\ HandlersIdle
    /\ ThreadsIdle
    /\ ingestion = <<>>
    /\ evidence = <<>>
    /\ sampling = <<>>
    /\ lookup = <<>>
    /\ sanitizing = <<>>
    /\ validation \in {[variant |-> v, chunks |-> c, on_merged |-> m, done |-> FALSE,
                        validated |-> <<>>, attempts |-> <<>>] :
                          v \in {"backend", "multiVideo"},
                          c \in SeqsUpTo(Chunks, MaxChunks),
                          m \in {"good", "as_failed"}}

validate_chunks ==
    /\ validation # <<>>
    /\ ~validation.done
    /\ validation' = [validation EXCEPT
                         !.done = TRUE,
                         !.validated = validate_chunks_for_embeddings(validation.variant,
                                                                      validation.chunks),
                         !.attempts =
                             [i \in 1..Len(validation.chunks) |->
                                 IF validation.chunks[i].text.stripped > 0
                                        /\ validation.chunks[i].text.clean >= MinContentLen
                                 THEN embedding_attempts(validation.variant,
                                                         validation.chunks[i].embed)
                                 ELSE [attempts |-> 0, calls |-> 0, raised |-> FALSE]]]
    /\ UNCHANGED <<handlerVars, retrieval_cache, threadVars, ingestion, evidence, sampling, lookup,
                   sanitizing>>

ValidateNext == validate_chunks

SpecValidate == ValidateInit /\ [][ValidateNext]_vars

---------------------------------------------------------------------------
(* transcript.py: ingest_video_to_chunks on a fragment list *)

\* The longest fragment list, and the most chunks the splitter returns.
MaxFragments == 3
MaxNumChunks == 110

\* A transcript fragment.  Times are in half seconds (start and duration are
\* floats); the fragments of a list are ordered by start and do not overlap:
\* each starts `gap` after the end of the one before (the first `gap` after 0).
FragmentShapes == [gap : {0, 3}, duration : {3, 4}, len : {300, 600}]

\* int(x) of a time given in half seconds.
IntSeconds(half_seconds) == half_seconds \div 2

RECURSIVE StartOf(_, _)
StartOf(shapes, i) ==
    IF i = 1 THEN shapes[1].gap
    ELSE StartOf(shapes, i - 1) + shapes[i - 1].duration + shapes[i].gap

\* Lines 122-133: the fragment documents with their int() start and end.
fragment_docs_of(shapes) ==
    [i \in 1..Len(shapes) |->
        [len |-> shapes[i].len,
         start |-> IntSeconds(StartOf(shapes, i)),
         end |-> IntSeconds(StartOf(shapes, i) + shapes[i].duration)]]

\* Line 141: max(600, min(1200, int(total_chars / 50))).
target_size_of(total_chars) == Max(600, Min(1200, total_chars \div 50))

\* Variant: a raw segment that starts with the fragment it closes at.
close_segment_at_last(fragment_docs, i, first, current_start, current_len) ==
    [start |-> fragment_docs[i].start, end |-> fragment_docs[i].end,
     first |-> first, last |-> i, len |-> current_len]

\* Lines 155-165: the raw segment closed at the i-th fragment; first, last
\* and len record the fragments joined in it and current_len.
close_segment(fragment_docs, i, first, current_start, current_len) ==
    [start |-> current_start, end |-> fragment_docs[i].end,
     first |-> first, last |-> i, len |-> current_len]

\* Lines 149-167: the loop from the i-th fragment on; `open` says whether
\* current_content holds a fragment already, `first` which one came first.
RECURSIVE raw_docs_from(_, _, _, _, _, _, _)
raw_docs_from(fragment_docs, target_size, i, open, first, current_start, current_len) ==
    IF i > Len(fragment_docs) THEN <<>>
    ELSE IF current_len + fragment_docs[i].len >= target_size \/ i = Len(fragment_docs)
    THEN <<close_segment(fragment_docs, i,
                         IF open THEN first ELSE i,
                         IF open THEN current_start ELSE fragment_docs[i].start,
                         current_len + fragment_docs[i].len)>>
             \o raw_docs_from(fragment_docs, target_size, i + 1, FALSE, 0, 0, 0)
    ELSE raw_docs_from(fragment_docs, target_size, i + 1, TRUE,
                       IF open THEN first ELSE i,
                       IF open THEN current_start ELSE fragment_docs[i].start,
                       current_len + fragment_docs[i].len)

\* Line 134: total_chars.
total_chars_of(fragment_docs) ==
    SumTo([i \in 1..Len(fragment_docs) |-> fragment_docs[i].len], Len(fragment_docs))

raw_docs_of(fragment_docs) ==
    raw_docs_from(fragment_docs, target_size_of(total_chars_of(fragment_docs)),
                  1, FALSE, 0, 0, 0)

NoIngestion == [stage |-> "start", raw_docs |-> <<>>, num_chunks |-> 0, dynamic_k |-> 0,
                processed |-> <<>>]

\* What api.fetch does: it returns a fragment list, or raises one of the
\* exceptions fetch_transcript_fragments catches.
TranscriptAnswers ==
    {[transcript |-> "ok", fragments |-> f] : f \in SeqsUpTo(FragmentShapes, MaxFragments)}
    \cup {[transcript |-> o, fragments |-> <<>>] : o \in TranscriptFailures}

\* transcript.py lines 99-112, on a fragment list.
fetched_fragments(answer) ==
    IF answer.transcript = "ok" THEN answer.fragments ELSE <<>>

IngestInit ==
    /\ HandlersIdle
    /\ ThreadsIdle
    /\ validation = <<>>
    /\ evidence = <<>>
    /\ sampling = <<>>
    /\ lookup = <<>>
    /\ sanitizing = <<>>
    /\ ingestion \in {NoIngestion @@ answer : answer \in TranscriptAnswers}

\* Lines 120-167: no fragments returns ([], 5) at once; otherwise the raw
\* segments are built.
build_raw_docs ==
    /\ ingestion # <<>>
    /\ ingestion.stage = "start"
    /\ ingestion' =
          IF fetched_fragments(ingestion) = <<>>
          THEN [ingestion EXCEPT
                   !.stage = "returned",
                   !.num_chunks = ingest_video_to_chunks([outcome |-> ingestion.transcript,
                                                          num_chunks |-> 0]).chunks,
                   !.dynamic_k = ingest_video_to_chunks([outcome |-> ingestion.transcript,
                                                         num_chunks |-> 0]).dynamic_k]
          ELSE [ingestion EXCEPT
                   !.stage = "raw",
                   !.raw_docs = raw_docs_of(fragment_docs_of(fetched_fragments(ingestion)))]
    /\ UNCHANGED <<handlerVars, retrieval_cache, threadVars, validation, evidence, sampling, lookup,
                   sanitizing>>

\* Lines 169-188: the splitter cuts the raw segments into chunks, at least
\* one per segment, and dynamic_k is computed from their number.
split_documents ==
    /\ ingestion # <<>>
    /\ ingestion.stage = "raw"
    /\ \E n \in Len(ingestion.raw_docs)..MaxNumChunks :
          ingestion' =
              [ingestion EXCEPT
                  !.stage = "returned",
                  !.num_chunks = ingest_video_to_chunks([outcome |-> "ok",
                                                         num_chunks |-> n]).chunks,
                  !.dynamic_k = ingest_video_to_chunks([outcome |-> "ok",
                                                        num_chunks |-> n]).dynamic_k]
    /\ UNCHANGED <<handlerVars, retrieval_cache, threadVars, validation, evidence, sampling, lookup,
                   sanitizing>>

\* pipeline.py lines 217-231: process_video of video A in a session that has
\* not processed it, from the chunker's return on.
record_processed ==
    /\ ingestion # <<>>
    /\ ingestion.stage = "returned"
    /\ \E eo \in EmbeddingOutcomes :
          ingestion' =
              [ingestion EXCEPT
                  !.stage = "recorded",
                  !.processed =
                      StoreProcessed([s1 |-> EmptySession], "s1", <<"A">>,
                          ProcessNew(<<"A">>,
                                     [meta |-> MetadataOutcomeOf(<<"A">>),
                                      transcript |-> [outcome |-> ingestion.transcript,
                                                      num_chunks |-> ingestion.num_chunks],
                                      embedding |-> eo]))]
    /\ UNCHANGED <<handlerVars, retrieval_cache, threadVars, validation, evidence, sampling, lookup,
                   sanitizing>>

IngestNext ==
    \/ build_raw_docs
    \/ split_documents
    \/ record_processed

SpecIngest == IngestInit /\ [][IngestNext]_vars

---------------------------------------------------------------------------
(* pipeline.py: process_video called by concurrent turns of one session *)

\* A turn inside process_video(session "s1", video_url): its position, the
\* video id, the record it built or found, what it raised, and the rank of
\* its write to processed_videos among the writes so far (0: none).
IdleTurn == [pc |-> "idle", video_id |-> None, result |-> NoProcessed,
             raised |-> "none", wrote |-> 0, ingested |-> FALSE]

Writes(T) == Cardinality({t \in DOMAIN T : T[t].wrote > 0})

\* Lines 207-212: the lookup of the video id; a hit returns the stored record.
pv_enter(t, video_url) ==
    /\ threads[t].pc = "idle"
    /\ threads' =
          [threads EXCEPT ![t] =
              IF extract_video_id(video_url) \in DOMAIN sessions["s1"].processed_videos
              THEN [@ EXCEPT !.pc = "returned",
                             !.video_id = extract_video_id(video_url),
                             !.result = sessions["s1"].processed_videos[extract_video_id(video_url)]]
              ELSE [@ EXCEPT !.pc = "ingesting",
                             !.video_id = extract_video_id(video_url)]]
    /\ UNCHANGED sessions

\* Lines 214-229: metadata, chunking and index build, for one answer of the
\* collaborators; an index build that raises ends the turn.
pv_ingest(t) ==
    /\ threads[t].pc = "ingesting"
    /\ \E ie \in IngestOutcomes(threads[t].video_id) :
          threads' =
              [threads EXCEPT ![t] =
                  IF ProcessNew(threads[t].video_id, ie).raised # "none"
                  THEN [@ EXCEPT !.pc = "returned", !.ingested = TRUE,
                                 !.raised = ProcessNew(threads[t].video_id, ie).raised]
                  ELSE [@ EXCEPT !.pc = "storing", !.ingested = TRUE,
                                 !.result = ProcessNew(threads[t].video_id, ie).result]]
    /\ UNCHANGED sessions

\* Lines 230-231: session["processed_videos"][video_id] = result; return.
pv_store(t) ==
    /\ threads[t].pc = "storing"
    /\ sessions' = StoreProcessed(sessions, "s1", threads[t].video_id,
                                  [raised |-> "none", result |-> threads[t].result,
                                   calls |-> <<>>]).sessions
    /\ threads' = [threads EXCEPT ![t].pc = "returned",
                                  ![t].wrote = Writes(threads) + 1]

turnFrame == <<program, mv_history, last, turn_log, summary_asked, mv_processed, ops, retrieval_cache, retrieval_locks, unitVars>>

Enter == (\E t \in Threads, video_url \in Urls : pv_enter(t, video_url)) /\ UNCHANGED turnFrame
Ingest == (\E t \in Threads : pv_ingest(t)) /\ UNCHANGED turnFrame
Store == (\E t \in Threads : pv_store(t)) /\ UNCHANGED turnFrame

TurnsInit ==
    /\ program = "backend"
    /\ sessions = ("s1" :> EmptySession)
    /\ mv_history = <<>>
    /\ last = NoLast
    /\ turn_log = [s \in SessionIds |-> <<>>]
    /\ summary_asked = [k \in SessionIds \X VideoIds |-> 0]
    /\ mv_processed = {}
    /\ ops = 0
    /\ UnitsIdle
    /\ retrieval_cache = <<>>
    /\ retrieval_locks = <<>>
    /\ threads = [t \in Threads |-> IdleTurn]

TurnsNext ==
    \/ Enter
    \/ Ingest
    \/ Store

SpecTurns == TurnsInit /\ [][TurnsNext]_vars

---------------------------------------------------------------------------
(* pipeline.py: threads inside get_or_create_session and the handler's write *)

\* A request's thread: pc is its place, session is the generation of the
\* dict it took with session = sessions[session_id] (the number of times
\* the id had been assigned by then), stored tells whether its record went
\* into the dict the session map holds.
IdleRequest == [pc |-> "idle", session_id |-> NoId, video_id |-> None, created |-> FALSE,
                session |-> 0, stored |-> FALSE]

\* How many times sessions[session_id] = {...} has run for the id.
Creations(T, session_id) ==
    Cardinality({t \in DOMAIN T : T[t].created /\ T[t].session_id = session_id})

\* Variant: the test and the assignment are one step, as under a lock.
goc_check_creating(t, session_id, video_url) ==
    /\ threads[t].pc = "idle"
    /\ sessions' = get_or_create_session(sessions, session_id, NoId).sessions
    /\ threads' = [threads EXCEPT ![t] =
                      [IdleRequest EXCEPT !.pc = "in_handler",
                                          !.session_id = session_id,
                                          !.video_id = extract_video_id(video_url),
                                          !.created = session_id \notin DOMAIN sessions]]

\* Line 35: if session_id and session_id in sessions: return session_id.
goc_check(t, session_id, video_url) ==
    /\ threads[t].pc = "idle"
    /\ threads' = [threads EXCEPT ![t] =
                      [IdleRequest EXCEPT !.pc = IF session_id \in DOMAIN sessions
                                                THEN "in_handler" ELSE "creating",
                                          !.session_id = session_id,
                                          !.video_id = extract_video_id(video_url)]]
    /\ UNCHANGED sessions

\* Lines 37-43: sessions[new_id] = {a new empty session}; return new_id.
goc_create(t) ==
    /\ threads[t].pc = "creating"
    /\ sessions' = (threads[t].session_id :> EmptySession) @@ sessions
    /\ threads' = [threads EXCEPT ![t].pc = "in_handler", ![t].created = TRUE]

\* Line 207: session = sessions[session_id], the dict the id maps to now.
pv_take_session(t) ==
    /\ threads[t].pc = "in_handler"
    /\ threads' = [threads EXCEPT ![t].pc = "processing",
                                  ![t].session = Creations(threads, threads[t].session_id)]
    /\ UNCHANGED sessions

\* Lines 211-231 on the dict taken at line 207: the record is stored in it;
\* a dict the session map has replaced since is reachable by nobody else.
pv_store_in_session(t) ==
    /\ threads[t].pc = "processing"
    /\ \E ie \in IngestOutcomes(threads[t].video_id) :
          /\ ProcessNew(threads[t].video_id, ie).raised = "none"
          /\ IF threads[t].session = Creations(threads, threads[t].session_id)
             THEN /\ sessions' =
                        IF threads[t].video_id
                               \in DOMAIN sessions[threads[t].session_id].processed_videos
                        THEN sessions
                        ELSE StoreProcessed(sessions, threads[t].session_id,
                                            threads[t].video_id,
                                            ProcessNew(threads[t].video_id, ie)).sessions
                  /\ threads' = [threads EXCEPT ![t].pc = "done", ![t].stored = TRUE]
             ELSE /\ sessions' = sessions
                  /\ threads' = [threads EXCEPT ![t].pc = "done"]

Check ==
    /\ \E t \in Threads, session_id \in SessionIds, video_url \in Urls :
          goc_check(t, session_id, video_url)
    /\ UNCHANGED turnFrame
Create == (\E t \in Threads : goc_create(t)) /\ UNCHANGED turnFrame
TakeSession == (\E t \in Threads : pv_take_session(t)) /\ UNCHANGED turnFrame
StoreInSession == (\E t \in Threads : pv_store_in_session(t)) /\ UNCHANGED turnFrame

SessionsInit ==
    /\ program = "backend"
    /\ sessions = <<>>
    /\ mv_history = <<>>
    /\ last = NoLast
    /\ turn_log = [s \in SessionIds |-> <<>>]
    /\ summary_asked = [k \in SessionIds \X VideoIds |-> 0]
    /\ mv_processed = {}
    /\ ops = 0
    /\ UnitsIdle
    /\ retrieval_cache = <<>>
    /\ retrieval_locks = <<>>
    /\ threads = [t \in Threads |-> IdleRequest]

SessionsNext ==
    \/ Check
    \/ Create
    \/ TakeSession
    \/ StoreInSession

SpecSessions == SessionsInit /\ [][SessionsNext]_vars

---------------------------------------------------------------------------
(* retriever.py: is_low_quality_text and format_evidence on one input *)

\* The longest candidate list given to format_evidence.
MaxDocs == 3

\* The texts is_low_quality_text is tried on: the token counts put the three
\* fractions below, at and above 0.25 (1/4), 0.4 (2/5) and 0.6 (3/5); a text
\* has no token exactly when its stripped length is 0.
TextStats ==
    {t \in [len : {0, 14, 15, 40}, ntok : {0, 4, 5}, one_char : 0..2,
            non_alnum : {0, 2, 3}, punct3 : BOOLEAN, numeric : {0, 3, 4}] :
        /\ (t.ntok = 0) = (t.len = 0)
        /\ t.one_char <= t.ntok /\ t.non_alnum <= t.ntok /\ t.numeric <= t.ntok
        /\ t.punct3 => t.len >= 3}
MinLens == {0, 15}

\* The candidates format_evidence is tried on: contents of 20, 40, 280, 281
\* and 300 characters, starting at 0:00, 1:05, 59:59 and 100:05.
EvidenceTexts ==
    {GoodText, NoisyText, [GoodText EXCEPT !.len = 280], [GoodText EXCEPT !.len = 281],
     [NoisyText EXCEPT !.len = 300]}
Starts == {0, 65, 3599, 6005}
Candidates == {Doc(<<"A">>, start, text) : start \in Starts, text \in EvidenceTexts}

EvidenceInit ==
    /\ HandlersIdle
    /\ ThreadsIdle
    /\ validation = <<>>
    /\ ingestion = <<>>
    /\ sampling = <<>>
    /\ lookup = <<>>
    /\ sanitizing = <<>>
    /\ evidence \in
          {[kind |-> "quality", text |-> t, min_len |-> m, done |-> FALSE, flagged |-> FALSE] :
              t \in TextStats, m \in MinLens}
          \cup {[kind |-> "format", docs |-> l, filter_low_quality |-> f, done |-> FALSE,
                 result |-> <<>>] :
                   l \in SeqsUpTo(Candidates, MaxDocs), f \in BOOLEAN}

check_quality ==
    /\ evidence # <<>>
    /\ evidence.kind = "quality"
    /\ ~evidence.done
    /\ evidence' = [evidence EXCEPT
                       !.done = TRUE,
                       !.flagged = is_low_quality_text(evidence.text, evidence.min_len)]
    /\ UNCHANGED <<handlerVars, retrieval_cache, threadVars, validation, ingestion, sampling, lookup,
                   sanitizing>>

format ==
    /\ evidence # <<>>
    /\ evidence.kind = "format"
    /\ ~evidence.done
    /\ evidence' = [evidence EXCEPT
                       !.done = TRUE,
                       !.result = format_evidence(evidence.docs, evidence.filter_low_quality)]
    /\ UNCHANGED <<handlerVars, retrieval_cache, threadVars, validation, ingestion, sampling, lookup,
                   sanitizing>>

EvidenceNext ==
    \/ check_quality
    \/ format

SpecEvidence == EvidenceInit /\ [][EvidenceNext]_vars

---------------------------------------------------------------------------
(* pipeline.py _get_universal_summary and multiVideo.py prepare_text: the *)
(* text given to the summary prompt                                        *)

\* The longest chunk list summarized.
MaxSummaryChunks == 4

\* MAX_CHARS.
MaxChars == 500000

\* Chunk lengths; 200000 + 299998 + 500000 and the two joining spaces make
\* 1,000,000 characters, twice the budget.
ChunkLens == {200000, 299998, 500000}

\* len(" ".join(...)) of the chunks at the given indices, in order.
JoinedLen(chunks, indices) ==
    SumTo([j \in 1..Len(indices) |-> chunks[indices[j]]], Len(indices))
        + Max(0, Len(indices) - 1)

\* chunks[::step]: the indices 1, 1 + step, 1 + 2 * step, ...
Strided(n, step) ==
    [j \in 1..((n + step - 1) \div step) |-> 1 + (j - 1) * step]

\* Variant: step = ceil(len(total_text) / MAX_CHARS).
step_of_ceiling(total_len) == (total_len + MaxChars - 1) \div MaxChars

\* step = len(total_text) // MAX_CHARS + 1.
step_of(total_len) == total_len \div MaxChars + 1

\* The chunks whose text is joined into final_text, the step used (0 when
\* nothing is sampled), and the length of final_text.
prepare_text(chunks) ==
    IF JoinedLen(chunks, [i \in 1..Len(chunks) |-> i]) > MaxChars
    THEN [step |-> step_of(JoinedLen(chunks, [i \in 1..Len(chunks) |-> i])),
          sampled |-> Strided(Len(chunks),
                              step_of(JoinedLen(chunks, [i \in 1..Len(chunks) |-> i]))),
          final_len |-> JoinedLen(chunks,
                           Strided(Len(chunks),
                                   step_of(JoinedLen(chunks, [i \in 1..Len(chunks) |-> i]))))]
    ELSE [step |-> 0, sampled |-> [i \in 1..Len(chunks) |-> i],
          final_len |-> JoinedLen(chunks, [i \in 1..Len(chunks) |-> i])]

SamplingInit ==
    /\ HandlersIdle
    /\ ThreadsIdle
    /\ validation = <<>>
    /\ ingestion = <<>>
    /\ evidence = <<>>
    /\ lookup = <<>>
    /\ sanitizing = <<>>
    /\ sampling \in {[chunks |-> c, done |-> FALSE, step |-> 0, sampled |-> <<>>,
                      final_len |-> 0] : c \in SeqsUpTo(ChunkLens, MaxSummaryChunks)}

build_summary_input ==
    /\ sampling # <<>>
    /\ ~sampling.done
    /\ sampling' = [sampling EXCEPT !.done = TRUE,
                                    !.step = prepare_text(sampling.chunks).step,
                                    !.sampled = prepare_text(sampling.chunks).sampled,
                                    !.final_len = prepare_text(sampling.chunks).final_len]
    /\ UNCHANGED <<handlerVars, retrieval_cache, threadVars, validation, ingestion, evidence,
                   lookup, sanitizing>>

SamplingNext == build_summary_input

SpecSampling == SamplingInit /\ [][SamplingNext]_vars

---------------------------------------------------------------------------
(* multiVideo.py: the cache key of get_structured_docs, call after call *)

\* Video ids as compare_videos gets them from extract_video_id: an
\* 11-character id is one token; an input with no URL prefix is returned as
\* it is, whatever it holds.  Queries are the user's text.
KeyUrls == {BareId("A"), ShortUrl("B"), <<"A", "__", "B">>}
KeyQueries == {<<"q1">>, <<"B", "__", "q1">>}
KeyPairs == {<<(<<"youtube-">> \o extract_video_id(u)), q>> : u \in KeyUrls, q \in KeyQueries}

NoLookup == [vectorstore_id |-> <<>>, user_query |-> <<>>, k |-> 0, hit |-> FALSE,
             docs |-> <<>>, stored_by |-> <<>>]

KeysInit ==
    /\ HandlersIdle
    /\ ThreadsIdle
    /\ validation = <<>>
    /\ ingestion = <<>>
    /\ evidence = <<>>
    /\ sampling = <<>>
    /\ lookup = NoLookup
    /\ sanitizing = <<>>

\* One call of get_structured_docs with no other call in progress (lines
\* 727-787); stored_by remembers the pair whose call stored each key.
structured_docs_call ==
    /\ lookup # <<>>
    /\ \E pair \in KeyPairs, k \in Ks, has_retriever \in BOOLEAN :
          \E g \in get_structured_docs(retrieval_cache, pair[1], has_retriever, pair[2], k,
                                       "retrieve") :
             /\ retrieval_cache' = g.cache
             /\ lookup' =
                   [vectorstore_id |-> pair[1], user_query |-> pair[2], k |-> k,
                    hit |-> CacheKey(pair[1], pair[2]) \in DOMAIN retrieval_cache,
                    docs |-> g.docs,
                    stored_by |->
                        IF CacheKey(pair[1], pair[2]) \in DOMAIN retrieval_cache
                        THEN lookup.stored_by
                        ELSE (CacheKey(pair[1], pair[2]) :> pair) @@ lookup.stored_by]
    /\ UNCHANGED <<handlerVars, threadVars, validation, ingestion, evidence, sampling,
                   sanitizing>>

KeysNext == structured_docs_call

SpecKeys == KeysInit /\ [][KeysNext]_vars

---------------------------------------------------------------------------
(* embeddings.py: SafeOllamaEmbeddings, element by element *)

MaxVecLen == 2

\* What a provider's vector can hold: a finite number, NaN, an infinity,
\* something float() rejects (None), or a nested list of such.
Float(value) == [kind |-> "float", value |-> value, items |-> <<>>]
NaN == [kind |-> "nan", value |-> 0, items |-> <<>>]
Inf == [kind |-> "inf", value |-> 0, items |-> <<>>]
NoNumber == [kind |-> "none", value |-> 0, items |-> <<>>]
List(items) == [kind |-> "list", value |-> 0, items |-> items]
Elements == {Float(5), NaN, Inf, NoNumber}
ProviderVectors ==
    {List(v) : v \in SeqsUpTo(Elements, MaxVecLen)}
    \cup {List(<<List(v)>>) : v \in SeqsUpTo(Elements, MaxVecLen)}

\* _flatten: the leaves of a nested list, left to right.  depth bounds the
\* nesting of the vectors above.
RECURSIVE FlattenFrom(_, _, _)
_flatten(x, depth) ==
    IF x.kind # "list" \/ depth = 0 THEN <<x>> ELSE FlattenFrom(x.items, 1, depth - 1)
FlattenFrom(items, i, depth) ==
    IF i > Len(items) THEN <<>>
    ELSE _flatten(items[i], depth) \o FlattenFrom(items, i + 1, depth)
MaxDepth == 3

\* math.isfinite(float(v)), False when float(v) raises.
IsFiniteNumber(v) == v.kind = "float"

\* Variant: an element that is not a finite number is left out.
_sanitize_vector_dropping(vec) ==
    SelectSeq(_flatten(vec, MaxDepth), IsFiniteNumber)

\* _sanitize_vector: float(v) when it is finite, 0.0 otherwise, for every
\* leaf.
_sanitize_vector(vec) ==
    [i \in 1..Len(_flatten(vec, MaxDepth)) |->
        IF IsFiniteNumber(_flatten(vec, MaxDepth)[i])
        THEN _flatten(vec, MaxDepth)[i]
        ELSE Float(0)]

\* embed_documents: every vector of the provider's answer is sanitized.
embed_documents(raw) == [i \in 1..Len(raw) |-> _sanitize_vector(raw[i])]

\* The validator's `any(not math.isfinite(v) for v in flat)` on a vector the
\* wrapper returned (lines 96-109).
contains_nan_or_inf(vec) ==
    \E i \in 1..Len(_flatten(List(vec), MaxDepth)) :
        ~IsFiniteNumber(_flatten(List(vec), MaxDepth)[i])

SanitizeInit ==
    /\ HandlersIdle
    /\ ThreadsIdle
    /\ validation = <<>>
    /\ ingestion = <<>>
    /\ evidence = <<>>
    /\ sampling = <<>>
    /\ lookup = <<>>
    /\ sanitizing \in {[raw |-> r, done |-> FALSE, query |-> <<>>, documents |-> <<>>,
                        rejected |-> FALSE] :
                          r \in SeqsUpTo(ProviderVectors, 2) \ {<<>>}}

\* embed_query on the provider's first vector, embed_documents on all of
\* them, and the validator's finiteness check on embed_query's vector.
embed ==
    /\ sanitizing # <<>>
    /\ ~sanitizing.done
    /\ sanitizing' = [sanitizing EXCEPT
                         !.done = TRUE,
                         !.query = _sanitize_vector(sanitizing.raw[1]),
                         !.documents = embed_documents(sanitizing.raw),
                         !.rejected = contains_nan_or_inf(_sanitize_vector(sanitizing.raw[1]))]
    /\ UNCHANGED <<handlerVars, retrieval_cache, threadVars, validation, ingestion, evidence,
                   sampling, lookup>>

SanitizeNext == embed

SpecSanitize == SanitizeInit /\ [][SanitizeNext]_vars

---------------------------------------------------------------------------
(* Properties *)

Contains(text, fragment) == \E i \in 1..Len(text) : text[i] = fragment

StoredUnindexed(sid, vid) ==
    /\ sid \in DOMAIN sessions
    /\ vid \in DOMAIN sessions[sid].processed_videos
    /\ \/ sessions[sid].processed_videos[vid].chunks = 0
       \/ sessions[sid].processed_videos[vid].vectorstore = None

\* C1: no failure of a collaborator (index build, completion, ...) is raised
\* to the caller of a public operation: every operation returns a result.
C1_NeverRaises == last.raised \notin {"IndexBuildError", "CompletionError"}

\* C2: get_intent always returns a label of its mode (SUMMARY or RAG for the
\* single-video chat, the four labels for the two-video chat), it returns RAG
\* when the classifier raises or answers something outside the labels, and
\* the turn goes on after the classification.
C2_IntentEnumerated ==
    last.trace.classifier # "none" =>
        LET labels == IF last.op = "chat" THEN {"SUMMARY", "RAG"}
                      ELSE {"SUMMARY", "RAG", "COMPARE", "DUAL_SUMMARY"}
        IN /\ last.trace.intent \in labels
           /\ last.trace.classifier \in labels => last.trace.intent = last.trace.classifier
           /\ last.trace.classifier \notin labels =>
                 /\ last.trace.intent = "RAG"
                 /\ last.calls[Len(last.calls)] # <<"classify">>

C2_Witness ==
    /\ last.op = "chat"
    /\ last.trace.classifier \in {"raise", "unparsable"}
    /\ last.trace.intent = "RAG"
    /\ last.raised = "none"
    /\ last.result.intent = "RAG"

\* C3: a RAG turn whose retrieved documents all fail the quality filter
\* (kept = 0) answers from the metadata only and never calls the
\* evidence-based generation.
C3_FallbackOnNoEvidence ==
    last.trace.kept = 0 =>
        /\ last.trace.context = "metadata"
        /\ ~Called({"gen_rag"}, last.calls)

ErrorTexts ==
    {"Error retrieving relevant documents.", "Error generating an answer.",
     "Error: comparison model invocation failed.", "Transcript not available for video "}

IsErrorTurn(l) ==
    /\ l.raised = "none"
    /\ \/ l.op \in {"chat", "compare"} /\ l.result.intent = "ERROR"
       \/ /\ l.op = "handle_user_query"
          /\ \/ l.result.intent = "ERROR"
             \/ l.result.response[1] \in ErrorTexts

HistoryUnchanged ==
    /\ mv_history' = mv_history
    /\ \A s \in DOMAIN sessions' :
          sessions'[s].history = IF s \in DOMAIN sessions THEN sessions[s].history ELSE <<>>

Flatten(log) ==
    [i \in 1..(2 * Len(log)) |->
        IF i % 2 = 1 THEN [type |-> "human", content |-> log[(i + 1) \div 2].user]
        ELSE [type |-> "ai", content |-> log[i \div 2].ai]]

\* C5: the history of a session is the concatenation, in turn order, of the
\* (user message, assistant response) pairs of its successful SUMMARY, RAG
\* and COMPARE turns.
C5_HistoryIsTurnLog ==
    \A s \in DOMAIN sessions : sessions[s].history = Flatten(turn_log[s])

C5_Witness ==
    \E s \in DOMAIN sessions :
        /\ Len(sessions[s].history) = 4
        /\ sessions[s].history[2].content # sessions[s].history[4].content
        /\ last.op = "compare"

\* C6: an operation never fetches metadata or a transcript, validates chunks
\* or builds an index for a video that was already processed.
C6_NoReingest ==
    \A i \in 1..Len(last.calls) :
        last.calls[i][1] \in IngestKinds => Tail(last.calls[i]) \notin last.known

\* C7: get_or_create_session returns a key of the session map; an existing
\* id is returned as it is and its session is left as it was; with no id a
\* new session with empty history and caches is created; no session is ever
\* removed.
C7_Sessions ==
    [][program = "backend" =>
          /\ last'.gocs.ret \in DOMAIN sessions'
          /\ last'.gocs.existed =>
                /\ last'.gocs.ret = last'.gocs.arg
                /\ last'.gocs.snapshot = sessions[last'.gocs.arg]
          /\ last'.gocs.arg = NoId =>
                /\ last'.gocs.ret \notin DOMAIN sessions
                /\ last'.gocs.snapshot = EmptySession
          /\ DOMAIN sessions \subseteq DOMAIN sessions']_vars

C7_Witness ==
    /\ last.gocs.existed
    /\ last.gocs.snapshot.history # <<>>
    /\ last.gocs.snapshot.processed_videos # <<>>
    /\ last.gocs.snapshot.summary_cache # <<>>

SummaryTurn(l) ==
    /\ l.raised = "none"
    /\ \/ l.op = "summarize"
       \/ l.op = "chat" /\ l.result.intent = "SUMMARY"

SummaryText(l) == IF l.op = "summarize" THEN l.result.summary ELSE l.result.response

C9_NoTranscriptError ==
    /\ (last.op = "chat" /\ StoredUnindexed(last.sid, last.vids[1])) =>
          /\ last.raised = "none"
          /\ last.result.intent = "ERROR"
          /\ Contains(last.result.response, last.vids[1][1])
          /\ last.result.sources = <<>>
    /\ (/\ last.op = "handle_user_query"
        /\ last.raised = "none"
        /\ last.trace.intent \in {"RAG", "SUMMARY"}
        /\ ~Called({"index_build"}, last.calls)) =>
          /\ last.result.response[1] = "Transcript not available for video "
          /\ last.calls[2][1] = "metadata"
          /\ Contains(last.result.response, last.calls[2][2])
          /\ ~Called(GenKinds \cup {"retrieve_a"}, last.calls)

C9_Witness ==
    /\ last.op = "chat"
    /\ last.vids[1] \in last.known
    /\ StoredUnindexed(last.sid, last.vids[1])
    /\ sessions[last.sid].processed_videos[last.vids[1]].chunks > 0
    /\ last.result.intent = "ERROR"

BothUnindexed(l) ==
    /\ l.raised = "none"
    /\ \/ /\ l.op = "compare"
          /\ \A i \in 1..2 : /\ StoredUnindexed(l.sid, l.vids[i])
                             /\ sessions[l.sid].processed_videos[l.vids[i]].vectorstore = None
       \/ /\ l.op = "handle_user_query"
          /\ l.trace.intent = "COMPARE"
          /\ ~Called({"index_build"}, l.calls)

\* C10 (as the code has it): a compare of two videos that both have no index
\* returns a result that reports the transcripts of both as missing (labelled
\* INSUFFICIENT_DATA by the two-video chat, an ERROR intent by the backend)
\* and calls neither a retriever nor the completion provider.
C10_BothMissingNoGeneration ==
    BothUnindexed(last) =>
        /\ IF last.op = "compare"
           THEN last.result =
                    CompareError(<<"Transcripts missing for both videos. Cannot compare.">>)
           ELSE last.result.response = InsufficientCompare
        /\ ~Called(GenKinds \cup {"retrieve", "retrieve_a", "retrieve_b"}, last.calls)

C10_Witness ==
    /\ last.op = "compare"
    /\ BothUnindexed(last)
    /\ last.vids[1] # last.vids[2]
    /\ Called({"validate"}, last.calls)

\* C10 (as stated): a compare of two videos that both have no index returns
\* an INSUFFICIENT_DATA result and does not call the completion provider.
C10_InsufficientData ==
    BothUnindexed(last) =>
        /\ Contains(last.result.response, "INSUFFICIENT_DATA")
        /\ ~Called(GenKinds, last.calls)

\* A compare that got past processing both videos: the backend operation, or
\* a two-video chat turn routed to COMPARE.
CompareTurn(l) ==
    /\ l.raised = "none"
    /\ l.trace.index # <<>>
    /\ \/ l.op = "compare"
       \/ l.op = "handle_user_query" /\ l.trace.intent = "COMPARE"

GenCompareCalls(l) == Cardinality({i \in 1..Len(l.calls) : l.calls[i] = <<"gen_compare">>})

GenerationFailed(l) ==
    l.result.response \in {<<"Error during comparison.">>,
                           <<"Error: comparison model invocation failed.">>}

OneSided(l) ==
    \/ l.trace.index \in {<<TRUE, FALSE>>, <<FALSE, TRUE>>}
    \/ /\ l.op = "compare"
       /\ l.trace.index = <<TRUE, TRUE>>
       /\ (l.trace.kept_a = -1) # (l.trace.kept_b = -1)

C12_MetadataNote ==
    (/\ CompareTurn(last)
     /\ GenCompareCalls(last) > 0
     /\ (last.trace.kept_a <= 0 \/ last.trace.kept_b <= 0)) => last.trace.note

\* A thread that has returned from a get_structured_docs call.
Returned(t) == threads[t].pc = "idle" /\ threads[t].calls > 0

NoDuplicatePairs(docs) ==
    \A i, j \in 1..Len(docs) :
        (docs[i].video_id = docs[j].video_id /\ docs[i].start = docs[j].start) => i = j

\* C13: every list get_structured_docs returns to a caller with bound k has
\* no two documents with the same (video_id, start) and at most k documents,
\* on the cache-hit, lock-holder and contention-fallback paths alike.
C13_DedupedAndBounded ==
    \A t \in Threads :
        Returned(t) => /\ NoDuplicatePairs(threads[t].result)
                       /\ Len(threads[t].result) <= threads[t].k

\* The threads whose retriever call for a key is in flight.
InFlight(cache_key) ==
    {t \in Threads : /\ threads[t].pc \in {"holder_retrieving", "fb_retrieving"}
                     /\ threads[t].cache_key = cache_key}

\* C14: at every moment at most one retriever call is in flight per key.
C14_OneInFlight == \A cache_key \in CacheKeys : Cardinality(InFlight(cache_key)) <= 1

\* C15: a call that finds the key's lock held never waits: whatever the other
\* threads do, a thread inside get_structured_docs can always take its next
\* step; on contention it returns the cached entry when there is one, and
\* otherwise calls the retriever itself, publishes its deduped, trimmed list
\* and returns the cache's entry (a retriever that raises makes it return []
\* and publish nothing).
C15_NeverWaits ==
    \A t \in Threads :
        /\ threads[t].pc # "idle" => ENABLED gsd_step(t)
        /\ threads[t].pc = "fb_hit" =>
              /\ ~threads[t].retrieved
              /\ threads[t].cache_key \in DOMAIN retrieval_cache
        /\ threads[t].pc \in {"fb_retrieving", "fb_publish", "fb_return"} =>
              threads[t].retrieved
        /\ threads[t].pc = "fb_return" => threads[t].cache_key \in DOMAIN retrieval_cache
        /\ (Returned(t) /\ threads[t].path = "fb_raise") => threads[t].result = <<>>

C15_Witness ==
    \E t, u \in Threads :
        /\ Returned(t)
        /\ threads[t].path = "fallback"
        /\ threads[u].pc = "holder_retrieving"
        /\ threads[u].cache_key = threads[t].cache_key
        /\ retrieval_locks[threads[t].cache_key] = u

\* C16: no step removes an entry from the retrieval cache, and a call that
\* starts when its key is cached takes the cache-hit return, never calls the
\* retriever and returns the first k documents of the entry.
C16_CacheHitAfterEntry ==
    [][/\ DOMAIN retrieval_cache \subseteq DOMAIN retrieval_cache'
       /\ \A t \in Threads :
             threads'[t].cached_at_start =>
                 /\ ~threads'[t].retrieved
                 /\ threads'[t].pc \in {"hit", "idle"}
                 /\ (threads[t].pc = "hit" /\ threads'[t].pc = "idle") =>
                       /\ threads'[t].path = "hit"
                       /\ threads'[t].result = Take(retrieval_cache[threads[t].cache_key],
                                                    threads[t].k)]_vars

C16_Witness ==
    \E t, u \in Threads :
        /\ t # u
        /\ Returned(t)
        /\ threads[t].cached_at_start
        /\ threads[t].path = "hit"
        /\ threads[t].result # <<>>
        /\ threads[u].pc = "holder_publish"
        /\ threads[u].cache_key = threads[t].cache_key

ValidationDone == IF validation = <<>> THEN FALSE ELSE validation.done

\* What embedding the text of a returned chunk yields once the provider's
\* transient failures are over: a chunk that absorbed nothing embeds as its
\* own text did, a merged text as the provider treats merged texts.
embedded_later(v) ==
    LET b == IF Len(v.parts) = 1 THEN validation.chunks[v.parts[1]].embed
             ELSE IF validation.on_merged = "good" THEN GoodEmbedding
             ELSE validation.chunks[v.parts[Len(v.parts)]].embed
    IN embed_query(validation.variant, b, b.raises + 1)

\* C17: every chunk the validator returns, merged ones included, has a text
\* that embeds to a finite vector of at least 100 numbers.
C17_ValidatedEmbeds ==
    ValidationDone =>
        \A i \in 1..Len(validation.validated) :
            /\ ~embedded_later(validation.validated[i]).raised
            /\ embedded_later(validation.validated[i]).vec.finite
            /\ embedded_later(validation.validated[i]).vec.len >= MinVectorLen

\* The input chunks by what the validator's loop does with them.
Embeddable(i) ==
    /\ validation.chunks[i].text.stripped > 0
    /\ validation.chunks[i].text.clean >= MinContentLen
Succeeded(i) ==
    Embeddable(i) /\ embedding_success(validation.variant, validation.chunks[i].embed)
Failed(i) ==
    Embeddable(i) /\ ~embedding_success(validation.variant, validation.chunks[i].embed)
FailedFirst(i) == Failed(i) /\ \A j \in 1..(i - 1) : ~Succeeded(j)

OutputChars ==
    SumTo([i \in 1..Len(validation.validated) |-> validation.validated[i].len],
          Len(validation.validated))

\* C18 (as the code has it): the content returned is the cleaned, normalized
\* content of every input chunk that has at least 15 characters after
\* cleaning, but for the chunks that failed embedding before any chunk was
\* validated; a failed chunk merged into its predecessor adds its content
\* and one separating space.  Blank chunks and chunks under 15 characters
\* are dropped, and cleaning and normalization change the count.
C18_ContentKept ==
    ValidationDone =>
        OutputChars =
            SumTo([i \in 1..Len(validation.chunks) |->
                      IF Succeeded(i) THEN validation.chunks[i].text.nfkc
                      ELSE IF Failed(i) /\ ~FailedFirst(i)
                      THEN validation.chunks[i].text.nfkc + 1
                      ELSE 0],
                  Len(validation.chunks))

C18_Witness ==
    /\ ValidationDone
    /\ \E i, j \in 1..Len(validation.chunks) : FailedFirst(i) /\ Failed(j) /\ ~FailedFirst(j)
    /\ OutputChars > 0

\* C18 (as stated): the characters returned are at least the characters
\* given minus those of the chunks that failed embedding with no validated
\* predecessor.
C18_NoOtherLoss ==
    ValidationDone =>
        OutputChars >=
            SumTo([i \in 1..Len(validation.chunks) |->
                      IF FailedFirst(i) THEN 0 ELSE validation.chunks[i].text.raw],
                  Len(validation.chunks))

RawBuilt == ingestion # <<>> /\ ingestion.stage \in {"raw", "returned", "recorded"} /\ ingestion.fragments # <<>>

\* The raw segments reach from the first fragment's start to the last
\* fragment's end, and each starts no later than the one before ends.
Covers(fragment_docs, raw_docs) ==
    /\ raw_docs # <<>>
    /\ raw_docs[1].start = fragment_docs[1].start
    /\ raw_docs[Len(raw_docs)].end = fragment_docs[Len(fragment_docs)].end
    /\ \A j \in 1..(Len(raw_docs) - 1) : raw_docs[j + 1].start <= raw_docs[j].end

\* C19: for every non-empty fragment list, ordered by start and without
\* overlap, the time ranges of the raw segments cover the interval from the
\* first fragment's start to the last fragment's end, with no gap between
\* consecutive segments.
C19_SegmentsCover ==
    RawBuilt => Covers(fragment_docs_of(ingestion.fragments), ingestion.raw_docs)

Sized == ingestion # <<>> /\ ingestion.stage = "returned"

Recorded == ingestion # <<>> /\ ingestion.stage = "recorded"

\* C21: when the transcript service fails in any way, or returns no fragments,
\* the chunker returns no chunks and dynamic_k 5, and process_video records
\* the video with no chunks, dynamic_k 5 and no index, without raising and
\* without an index build.
C21_EmptyTranscriptRecorded ==
    (Recorded /\ fetched_fragments(ingestion) = <<>>) =>
        /\ ingestion.num_chunks = 0
        /\ ingestion.dynamic_k = 5
        /\ ingestion.processed.raised = "none"
        /\ <<"A">> \in DOMAIN ingestion.processed.sessions["s1"].processed_videos
        /\ ingestion.processed.sessions["s1"].processed_videos[<<"A">>].chunks = 0
        /\ ingestion.processed.sessions["s1"].processed_videos[<<"A">>].dynamic_k = 5
        /\ ingestion.processed.sessions["s1"].processed_videos[<<"A">>].vectorstore = None
        /\ \A i \in 1..Len(ingestion.processed.calls) :
              ingestion.processed.calls[i][1] \notin {"validate", "index_build"}

C21_Witness ==
    /\ Recorded
    /\ ingestion.transcript = "Exception"
    /\ ingestion.processed.sessions["s1"].processed_videos[<<"A">>].dynamic_k = 5

\* Both turns wrote a record for the same video.
BothWrote ==
    /\ \A t \in Threads : threads[t].pc = "returned" /\ threads[t].wrote > 0
    /\ \A t, u \in Threads : threads[t].video_id = threads[u].video_id

Equivalent(p, q) ==
    /\ p.chunks = q.chunks
    /\ p.dynamic_k = q.dynamic_k
    /\ (p.vectorstore = None) = (q.vectorstore = None)

\* C22: when two turns of one session process the same unprocessed video
\* concurrently, both may ingest, processed_videos ends with one entry for the
\* video, and the later write is equivalent to the earlier one: same chunks,
\* dynamic_k and index presence.
C22_LaterWriteEquivalent ==
    (threads # <<>> /\ program = "backend" /\ BothWrote) =>
        /\ DOMAIN sessions["s1"].processed_videos = {threads["t1"].video_id}
        /\ \A t, u \in Threads : Equivalent(threads[t].result, threads[u].result)

\* What one answer of the retriever for a key becomes in the cache: its
\* documents without repeated (video_id, start) pairs, cut to a caller's k.
SingleCallResults(cache_key) ==
    {Take(DedupeMerged(ro.docs), k) : ro \in RetrieverAnswers(cache_key), k \in Ks}

\* The list a thread at a publishing statement is about to store.
PublishedBy(t) ==
    IF threads[t].pc = "holder_publish" THEN threads[t].docs
    ELSE Take(threads[t].docs, threads[t].k)

\* C23: under every interleaving of calls for one key, the key's cache entry
\* is always the deduplicated, k-truncated result of one retriever call, and
\* every change of the entry replaces it whole by what one caller publishes,
\* so that the entry is the last writer's.
C23_LastWriterWins ==
    /\ [](\A cache_key \in DOMAIN retrieval_cache :
             retrieval_cache[cache_key] \in SingleCallResults(cache_key))
    /\ [][\A cache_key \in DOMAIN retrieval_cache' :
             (cache_key \notin DOMAIN retrieval_cache
                 \/ retrieval_cache'[cache_key] # retrieval_cache[cache_key])
             => \E t \in Threads :
                   /\ threads[t].pc \in {"holder_publish", "fb_publish"}
                   /\ threads'[t].pc # threads[t].pc
                   /\ threads[t].cache_key = cache_key
                   /\ retrieval_cache'[cache_key] = PublishedBy(t)]_vars

\* Two calls for one key both retrieved and published, and the entry is the
\* second publisher's, not the lock holder's.
C23_Witness ==
    /\ threads # <<>>
    /\ program = "multiVideo"
    /\ \E t, u \in Threads :
          /\ t # u
          /\ threads[t].pc = "idle" /\ threads[u].pc = "idle"
          /\ threads[t].path = "holder" /\ threads[u].path = "fallback"
          /\ threads[t].cache_key = threads[u].cache_key
          /\ retrieval_cache[threads[t].cache_key] = Take(threads[u].docs, threads[u].k)
          /\ retrieval_cache[threads[t].cache_key] # threads[t].docs

\* The validator's output after the first n input chunks.
ValidatedUpTo(n) ==
    validate_chunks_for_embeddings(validation.variant, SubSeq(validation.chunks, 1, n))

\* C24: a chunk whose every embedding attempt fails is merged into the last
\* validated chunk: the output keeps its length, that chunk's content becomes
\* its previous content, one space and the failed chunk's cleaned text, its
\* metadata and all earlier output chunks stay as they were; with nothing
\* validated yet the failed chunk is dropped and the output stays empty.
C24_MergeIntoPrevious ==
    ValidationDone =>
        /\ validation.validated = ValidatedUpTo(Len(validation.chunks))
        /\ \A i \in 1..Len(validation.chunks) :
              Failed(i) =>
                 IF ValidatedUpTo(i - 1) = <<>> THEN ValidatedUpTo(i) = <<>>
                 ELSE /\ Len(ValidatedUpTo(i)) = Len(ValidatedUpTo(i - 1))
                      /\ \A j \in 1..(Len(ValidatedUpTo(i)) - 1) :
                            ValidatedUpTo(i)[j] = ValidatedUpTo(i - 1)[j]
                      /\ ValidatedUpTo(i)[Len(ValidatedUpTo(i))].len =
                            ValidatedUpTo(i - 1)[Len(ValidatedUpTo(i))].len + 1
                               + validation.chunks[i].text.nfkc
                      /\ ValidatedUpTo(i)[Len(ValidatedUpTo(i))].meta =
                            ValidatedUpTo(i - 1)[Len(ValidatedUpTo(i))].meta

C24_Witness ==
    /\ ValidationDone
    /\ Len(validation.chunks) = 3
    /\ FailedFirst(1) /\ Succeeded(2) /\ Failed(3)
    /\ Len(validation.validated) = 1
    /\ validation.validated[1].meta = 2
    /\ validation.validated[1].parts = <<2, 3>>

\* C25: for every chunk the validator makes at most 2 embedding attempts, only
\* one when the first yields a non-empty, finite vector of at least 100
\* numbers, and no embedding failure leaves the validator; so the validation
\* of any chunk list ends, also when every attempt fails.
C25_BoundedAttempts ==
    /\ (validation # <<>> /\ ~ValidationDone) => ENABLED validate_chunks
    /\ ValidationDone =>
          \A i \in 1..Len(validation.chunks) :
              /\ validation.attempts[i].attempts <= 2
              /\ ~validation.attempts[i].raised
              /\ (Embeddable(i) /\ validation.variant = "backend") =>
                    (validation.attempts[i].attempts = 1)
                       = (/\ ~embed_query("backend", validation.chunks[i].embed, 1).raised
                          /\ embed_query("backend", validation.chunks[i].embed, 1).vec.finite
                          /\ embed_query("backend", validation.chunks[i].embed, 1).vec.len >= 100)

C25_Witness ==
    /\ ValidationDone
    /\ validation.variant = "backend"
    /\ \A i \in 1..Len(validation.chunks) :
          /\ Failed(i)
          /\ validation.chunks[i].embed.dead
          /\ validation.attempts[i].attempts = 2
    /\ Len(validation.chunks) = 3

\* The accumulated text length of the fragments lo..hi.
RunLen(fragment_docs, lo, hi) ==
    SumTo([i \in 1..hi |-> IF i >= lo THEN fragment_docs[i].len ELSE 0], hi)

\* The raw segments cut the fragment list into consecutive runs.
Partition(fragment_docs, raw_docs) ==
    /\ raw_docs # <<>>
    /\ raw_docs[1].first = 1
    /\ raw_docs[Len(raw_docs)].last = Len(fragment_docs)
    /\ \A j \in 1..Len(raw_docs) : raw_docs[j].first <= raw_docs[j].last
    /\ \A j \in 1..(Len(raw_docs) - 1) : raw_docs[j + 1].first = raw_docs[j].last + 1

\* C26: the raw segments cut the fragment list into consecutive runs in input
\* order, every fragment in exactly one; a segment starts at its first
\* fragment's start and ends at its last fragment's end, so start <= end;
\* every segment but possibly the last has accumulated at least target_size
\* characters, and none goes on past the first fragment at which it has.
C26_GreedyRuns ==
    RawBuilt =>
        /\ Partition(fragment_docs_of(ingestion.fragments), ingestion.raw_docs)
        /\ \A j \in 1..Len(ingestion.raw_docs) :
              /\ ingestion.raw_docs[j].start =
                    fragment_docs_of(ingestion.fragments)[ingestion.raw_docs[j].first].start
              /\ ingestion.raw_docs[j].end =
                    fragment_docs_of(ingestion.fragments)[ingestion.raw_docs[j].last].end
              /\ ingestion.raw_docs[j].start <= ingestion.raw_docs[j].end
              /\ ingestion.raw_docs[j].len =
                    RunLen(fragment_docs_of(ingestion.fragments),
                           ingestion.raw_docs[j].first, ingestion.raw_docs[j].last)
              /\ j < Len(ingestion.raw_docs) =>
                    ingestion.raw_docs[j].len >=
                       target_size_of(total_chars_of(fragment_docs_of(ingestion.fragments)))
              /\ RunLen(fragment_docs_of(ingestion.fragments),
                        ingestion.raw_docs[j].first, ingestion.raw_docs[j].last - 1)
                    < target_size_of(total_chars_of(fragment_docs_of(ingestion.fragments)))

C26_Witness ==
    /\ RawBuilt
    /\ Len(ingestion.fragments) = 3
    /\ Len(ingestion.raw_docs) = 2
    /\ ingestion.raw_docs[1].first = 1 /\ ingestion.raw_docs[1].last = 2
    /\ ingestion.raw_docs[1].len = 900
    /\ ingestion.raw_docs[2].len = 300

LogSized == Sized /\ ingestion.fragments # <<>> /\ ingestion.num_chunks >= 20

\* C27 (as the code has it): from 20 chunks on, dynamic_k is the product
\* log2(num_chunks) * 1.5 cut to its integer part, then clamped to 5..10.
C27_TruncatedThenClamped ==
    LogSized =>
        ingestion.dynamic_k = Max(5, Min(10, FloorLog2Times15(ingestion.num_chunks)))

C27_Witness ==
    /\ LogSized
    /\ FloorLog2Times15(ingestion.num_chunks) < RoundLog2Times15(ingestion.num_chunks)
    /\ RoundLog2Times15(ingestion.num_chunks) <= 10

\* C27 (as stated): from 20 chunks on, dynamic_k is the product rounded to
\* the nearest integer, then clamped to 5..10.
C27_RoundedThenClamped ==
    LogSized =>
        ingestion.dynamic_k = Max(5, Min(10, RoundLog2Times15(ingestion.num_chunks)))

QualityChecked == evidence # <<>> /\ evidence.kind = "quality" /\ evidence.done

\* C28: is_low_quality_text flags a text exactly when one of five conditions
\* holds: its stripped length is under min_len or it has no token; more than
\* a quarter of its tokens have one character; more than 0.4 of them have no
\* letter and no digit; it has a run of three or more of , . ? !; more than
\* 0.6 of its tokens are made of digits, commas, dots and hyphens.  A
\* fraction at its threshold does not flag.
C28_FlaggedIffOneOfFive ==
    QualityChecked =>
        evidence.flagged =
            (\/ evidence.text.len < evidence.min_len \/ evidence.text.ntok = 0
             \/ evidence.text.ntok > 0 /\ 4 * evidence.text.one_char > evidence.text.ntok
             \/ evidence.text.ntok > 0 /\ 5 * evidence.text.non_alnum > 2 * evidence.text.ntok
             \/ evidence.text.punct3
             \/ evidence.text.ntok > 0 /\ 5 * evidence.text.numeric > 3 * evidence.text.ntok)

C28_Witness ==
    /\ QualityChecked
    /\ ~evidence.flagged
    /\ evidence.text.ntok = 5
    /\ evidence.text.non_alnum = 2
    /\ evidence.text.numeric = 3
    /\ evidence.text.len = evidence.min_len

Formatted == evidence # <<>> /\ evidence.kind = "format" /\ evidence.done

\* The candidates format_evidence keeps: all when filtering is off, those
\* not flagged at min_len 15 when it is on.
KeptCandidates ==
    SelectSeq(evidence.docs,
              LAMBDA d : ~evidence.filter_low_quality
                            \/ ~is_low_quality_text(d.text, DefaultMinLen))

Sentinels == {<<"No transcript evidence found.">>, <<"No good transcript evidence found">>}

\* C29: for every candidate list, kept + dropped is the number of candidates,
\* dropped is 0 when filtering is off, the lines are the kept candidates, one
\* each and in input order, and the text is a no-evidence sentinel exactly
\* when kept = 0, an empty list included.
C29_StatsAndLines ==
    Formatted =>
        /\ evidence.result.kept + evidence.result.dropped = Len(evidence.docs)
        /\ ~evidence.filter_low_quality => evidence.result.dropped = 0
        /\ evidence.result.kept = Len(KeptCandidates)
        /\ Len(evidence.result.lines) = evidence.result.kept
        /\ \A i \in 1..Len(evidence.result.lines) :
              evidence.result.lines[i].of = KeptCandidates[i]
        /\ (evidence.result.text \in Sentinels) = (evidence.result.kept = 0)

C29_Witness ==
    /\ Formatted
    /\ evidence.filter_low_quality
    /\ evidence.result.kept = 2
    /\ evidence.result.dropped = 1
    /\ is_low_quality_text(evidence.docs[2].text, DefaultMinLen)
    /\ evidence.result.lines[1].of # evidence.result.lines[2].of

\* The number a digit sequence writes.
RECURSIVE Value(_)
Value(digits) ==
    IF digits = <<>> THEN 0
    ELSE 10 * Value(SubSeq(digits, 1, Len(digits) - 1)) + digits[Len(digits)]

\* C30: every quote is at most 280 characters: a content of more than 280 is
\* its first 277 characters and a three-character ellipsis, a shorter one is
\* unchanged; the line's mm:ss is the candidate's start second split into
\* minutes and seconds, each zero-padded to two digits.
C30_QuoteAndTimestamp ==
    Formatted =>
        \A i \in 1..Len(evidence.result.lines) :
            /\ evidence.result.lines[i].quote.len <= 280
            /\ evidence.result.lines[i].of.text.len > 280 =>
                  /\ evidence.result.lines[i].quote.from_content = 277
                  /\ evidence.result.lines[i].quote.ellipsis
                  /\ evidence.result.lines[i].quote.len = 280
            /\ evidence.result.lines[i].of.text.len <= 280 =>
                  /\ evidence.result.lines[i].quote.from_content =
                        evidence.result.lines[i].of.text.len
                  /\ ~evidence.result.lines[i].quote.ellipsis
                  /\ evidence.result.lines[i].quote.len = evidence.result.lines[i].of.text.len
            /\ Len(evidence.result.lines[i].ts.mm) >= 2
            /\ Len(evidence.result.lines[i].ts.ss) = 2
            /\ Value(evidence.result.lines[i].ts.ss) < 60
            /\ 60 * Value(evidence.result.lines[i].ts.mm) + Value(evidence.result.lines[i].ts.ss)
                  = evidence.result.lines[i].of.start

C30_Witness ==
    /\ Formatted
    /\ \E i, j \in 1..Len(evidence.result.lines) :
          /\ evidence.result.lines[i].of.text.len = 281
          /\ evidence.result.lines[i].ts = [mm |-> <<0, 1>>, ss |-> <<0, 5>>]
          /\ evidence.result.lines[j].of.text.len = 280
          /\ evidence.result.lines[j].ts = [mm |-> <<1, 0, 0>>, ss |-> <<0, 5>>]

Prepared == sampling # <<>> /\ sampling.done

TotalLen == JoinedLen(sampling.chunks, [i \in 1..Len(sampling.chunks) |-> i])

\* C31 (as the code has it): a joined text longer than 500,000 characters is
\* replaced by the text of every step-th chunk from the first on, with
\* step = floor(len / 500000) + 1; a text within the budget is used whole.
C31_StrideSampling ==
    Prepared =>
        IF TotalLen > 500000
        THEN /\ sampling.step = TotalLen \div 500000 + 1
             /\ sampling.sampled # <<>>
             /\ \A j \in 1..Len(sampling.sampled) :
                   sampling.sampled[j] = 1 + (j - 1) * sampling.step
             /\ \A i \in 1..Len(sampling.chunks) :
                   (i - 1) % sampling.step = 0 =>
                       \E j \in 1..Len(sampling.sampled) : sampling.sampled[j] = i
             /\ sampling.final_len = JoinedLen(sampling.chunks, sampling.sampled)
        ELSE /\ sampling.sampled = [i \in 1..Len(sampling.chunks) |-> i]
             /\ sampling.final_len = TotalLen

C31_Witness ==
    /\ Prepared
    /\ TotalLen = 2 * 500000
    /\ sampling.step = 3
    /\ Len(sampling.chunks) = 3
    /\ sampling.sampled = <<1>>

\* C31 (as stated): the step of the sampling is ceil(len / 500000).
C31_CeilingStride ==
    (Prepared /\ TotalLen > 500000) =>
        sampling.step = (TotalLen + 500000 - 1) \div 500000

\* A conversation turn that came back from the classifier: a backend chat or a
\* multiVideo handle_user_query that returned a result.
ClassifiedTurn(l) ==
    /\ l.op \in {"chat", "handle_user_query"}
    /\ l.raised = "none"
    /\ l.trace.intent # "none"

\* The path a turn took, read from the collaborators it called.
TookSummaryPath(l) ==
    /\ ~Called({"retrieve", "retrieve_a", "gen_rag", "gen_fallback", "gen_compare", "gen_dual"}, l.calls)
    /\ l.result.intent = "SUMMARY"
TookRagPath(l) ==
    ~Called({"gen_summary", "gen_compare", "gen_dual"}, l.calls)
TookComparePath(l) ==
    ~Called({"gen_summary", "gen_rag", "gen_fallback"}, l.calls)

\* C32 (as stated): a turn is handled by the path of its classified mode and,
\* unless it ends in ERROR, reports that mode as its intent.
C32_RoutedByMode ==
    ClassifiedTurn(last) =>
        /\ last.result.intent # "ERROR" => last.result.intent = last.trace.intent
        /\ last.trace.intent = "SUMMARY" => TookSummaryPath(last)
        /\ last.trace.intent = "RAG" => TookRagPath(last)
        /\ last.trace.intent \in {"COMPARE", "DUAL_SUMMARY"} => TookComparePath(last)

\* The same for the backend's chat turns only.
C32_BackendRoutedByMode ==
    (ClassifiedTurn(last) /\ last.op = "chat") =>
        /\ last.result.intent # "ERROR" => last.result.intent = last.trace.intent
        /\ last.trace.intent = "SUMMARY" => TookSummaryPath(last)
        /\ last.trace.intent = "RAG" => TookRagPath(last)

\* A multiVideo turn classified SUMMARY that ran retrieval and reported RAG.
C32_SummaryAnsweredAsRag ==
    /\ ClassifiedTurn(last)
    /\ last.op = "handle_user_query"
    /\ last.trace.classifier = "SUMMARY"
    /\ last.trace.intent = "SUMMARY"
    /\ last.result.intent = "RAG"
    /\ Called({"retrieve_a"}, last.calls)
    /\ Called({"gen_rag"}, last.calls)

\* The places of the lock-holder path (lines 761-787) and of the path of a
\* caller that did not get the lock (lines 739-759).
HolderPcs == {"holder_retrieving", "holder_publish", "holder_release"}
FallbackPcs == {"fb_check", "fb_hit", "fb_retrieving", "fb_publish", "fb_return"}

LockHeldOnlyByHolder ==
    /\ \A cache_key \in CacheKeys :
          retrieval_locks[cache_key] # NoThread =>
              /\ threads[retrieval_locks[cache_key]].pc \in HolderPcs
              /\ threads[retrieval_locks[cache_key]].cache_key = cache_key
    /\ \A t \in Threads :
          threads[t].pc \in HolderPcs => retrieval_locks[threads[t].cache_key] = t
    /\ (\A t \in Threads : threads[t].pc = "idle") =>
          \A cache_key \in CacheKeys : retrieval_locks[cache_key] = NoThread

\* A lock changes hands only by the acquire of a caller that found it free
\* and by the return of the thread that holds it.
LockStep ==
    \A cache_key \in CacheKeys :
        retrieval_locks'[cache_key] # retrieval_locks[cache_key] =>
            \/ /\ retrieval_locks[cache_key] = NoThread
               /\ threads[retrieval_locks'[cache_key]].pc = "acquire"
               /\ threads'[retrieval_locks'[cache_key]].pc = "holder_retrieving"
            \/ /\ retrieval_locks'[cache_key] = NoThread
               /\ threads[retrieval_locks[cache_key]].pc = "holder_release"
               /\ threads'[retrieval_locks[cache_key]].pc = "idle"

\* C33: a key's lock is held exactly by the thread inside the lock-holder
\* path for that key; the holder's return releases it, also after the
\* retriever raised; a caller that did not get the lock never changes it; with
\* no call in progress every lock is free.
C33_LockDiscipline == []LockHeldOnlyByHolder /\ [][LockStep]_vars

\* A holder whose retriever raised has returned and its lock is free, while a
\* caller that failed to acquire that lock is still in the fallback path.
C33_Witness ==
    \E t, u \in Threads :
        /\ Returned(t)
        /\ threads[t].path = "holder"
        /\ threads[t].result = <<>>
        /\ threads[u].pc \in FallbackPcs
        /\ threads[u].cache_key = threads[t].cache_key
        /\ retrieval_locks[threads[t].cache_key] = NoThread

\* The retriever's lists are not empty and k >= 1, so an empty cache entry is
\* the outcome of a retrieval that raised.
FailurePublished(cache_key) ==
    cache_key \in DOMAIN retrieval_cache /\ retrieval_cache[cache_key] = <<>>

\* C34 (as stated): a retrieval that raised returns the empty list and is
\* never stored, so no call is served an empty cached entry.
C34_FailureNotCached ==
    /\ \A t \in Threads :
          (Returned(t) /\ threads[t].path = "fb_raise") => threads[t].result = <<>>
    /\ \A cache_key \in CacheKeys : ~FailurePublished(cache_key)
    /\ \A t \in Threads :
          (Returned(t) /\ threads[t].path \in {"hit", "fb_hit"}) => threads[t].result # <<>>

\* The fallback half: a caller without the lock whose retriever raised
\* returns the empty list and leaves the cache as it was.
C34_FallbackFailureStep ==
    \A t \in Threads :
        (threads[t].pc = "fb_retrieving" /\ threads'[t].pc = "idle") =>
            /\ threads'[t].result = <<>>
            /\ retrieval_cache' = retrieval_cache
C34_FallbackFailureNotCached == [][C34_FallbackFailureStep]_vars

\* A thread's second call is a cache hit on the empty entry a failed holder
\* published, and returns the empty list without calling the retriever.
C34_EmptyEntryServed ==
    \E t \in Threads :
        /\ Returned(t)
        /\ threads[t].calls = 2
        /\ threads[t].path = "hit"
        /\ ~threads[t].retrieved
        /\ threads[t].result = <<>>
        /\ FailurePublished(threads[t].cache_key)

\* Thread u's only call stored the key's entry and thread t's only call
\* found it: the entry in the cache is the one u stored with its k.
ServedFrom(t, u) ==
    /\ t # u
    /\ Returned(t) /\ Returned(u)
    /\ threads[t].calls = 1 /\ threads[u].calls = 1
    /\ threads[t].cache_key = threads[u].cache_key
    /\ threads[u].path \in {"holder", "fallback"}
    /\ threads[t].path = "hit"

LaterCallBounded ==
    \A t, u \in Threads :
        ServedFrom(t, u) =>
            /\ threads[t].result = Take(retrieval_cache[threads[t].cache_key], threads[t].k)
            /\ Len(threads[t].result) =
                   Min(threads[t].k, Len(retrieval_cache[threads[t].cache_key]))
            /\ Len(threads[t].result) <= threads[u].k

\* The return of a call that found the key at line 733.
HitStep ==
    \A t \in Threads :
        (threads[t].pc = "hit" /\ threads'[t].pc = "idle") =>
            /\ threads'[t].result = Take(retrieval_cache[threads[t].cache_key], threads[t].k)
            /\ ~threads'[t].retrieved
            /\ retrieval_cache' = retrieval_cache

\* C35: k is no part of the key: a call that finds the key cached returns the
\* first min(k, length) candidates of the stored entry without retrieving, so
\* an entry stored under k1 serves at most k1 candidates to a later call with
\* a larger k.
C35_EntryServedUnderAnyK == []LaterCallBounded /\ [][HitStep]_vars

\* An entry stored with k = 1 serves one candidate to a call with k = 2.
C35_Witness ==
    \E t, u \in Threads :
        /\ ServedFrom(t, u)
        /\ threads[u].k = 1
        /\ threads[t].k = 2
        /\ Len(threads[t].result) = 1
        /\ threads[t].result = retrieval_cache[threads[t].cache_key]

\* The cache key of the lookup's pair.
LookupKey == CacheKey(lookup.vectorstore_id, lookup.user_query)

\* C36 (as stated): the key of a call's (vectorstore_id, query) pair holds
\* what a call with that same pair stored, never the entry of another pair.
C36_NoCrossPairEntry ==
    (lookup # <<>> /\ lookup.vectorstore_id # <<>>) =>
        lookup.stored_by[LookupKey] = <<lookup.vectorstore_id, lookup.user_query>>

\* Pairs whose video id is a single 11-character id never share a key.
C36_RealIdsKeepApart ==
    (/\ lookup # <<>>
     /\ lookup.vectorstore_id # <<>>
     /\ Len(lookup.vectorstore_id) = 2
     /\ Len(lookup.stored_by[LookupKey][1]) = 2) =>
        lookup.stored_by[LookupKey] = <<lookup.vectorstore_id, lookup.user_query>>

\* A call for video A is a cache hit on the entry stored for video A__B and
\* returns that video's evidence.
C36_EvidenceOfAnotherVideo ==
    /\ lookup # <<>>
    /\ lookup.hit
    /\ lookup.vectorstore_id = <<"youtube-", "A">>
    /\ lookup.stored_by[LookupKey][1] = <<"youtube-", "A", "__", "B">>
    /\ lookup.docs # <<>>
    /\ \A i \in 1..Len(lookup.docs) : lookup.docs[i].video_id = <<"A", "__", "B">>

\* A chat turn on a video the session holds without chunks or without index.
ChatOnUnindexed(sid, vid) ==
    /\ StoredUnindexed(sid, vid)
    /\ ops' = ops + 1
    /\ last'.op = "chat"
    /\ last'.sid = sid
    /\ last'.vids = <<vid>>

MemoizedUnavailable ==
    \A sid \in SessionIds, vid \in VideoIds :
        /\ StoredUnindexed(sid, vid) =>
              /\ sid \in DOMAIN sessions'
              /\ vid \in DOMAIN sessions'[sid].processed_videos
              /\ sessions'[sid].processed_videos[vid] = sessions[sid].processed_videos[vid]
        /\ ChatOnUnindexed(sid, vid) =>
              /\ last'.raised = "none"
              /\ last'.result = ErrorResult(TranscriptNotAvailable(vid))
              /\ last'.calls = <<>>

\* C37: once a session holds a video's record without chunks or without
\* index, the record stays as it is through every later operation, and every
\* later chat turn on the video returns the transcript-unavailable ERROR
\* without any metadata or transcript fetch, validation, index build,
\* classification, retrieval or generation.
C37_EmptyRecordMemoized == [][MemoizedUnavailable]_vars

\* The second operation is a chat turn on a video whose processing by the
\* first operation left it without index; it calls nothing and returns ERROR.
C37_Witness ==
    /\ ops = 2
    /\ last.op = "chat"
    /\ last.vids = <<"A">>
    /\ last.vids[1] \in last.known
    /\ StoredUnindexed(last.sid, <<"A">>)
    /\ last.calls = <<>>
    /\ last.result.intent = "ERROR"

\* C38 (as stated): an id is assigned a session once, and a record a request
\* stored in the session stays in the session the id maps to.
C38_OneSessionNothingLost ==
    /\ \A session_id \in SessionIds : Creations(threads, session_id) <= 1
    /\ \A t \in Threads :
          threads[t].stored =>
              threads[t].video_id
                  \in DOMAIN sessions[threads[t].session_id].processed_videos
    /\ \A t \in Threads :
          threads[t].pc = "done" => threads[t].stored

\* Two requests for the unknown id s1: the first created the session and
\* stored video A in it, the second's creation replaced the session, which is
\* empty again.
C38_SessionReplaced ==
    \E t, u \in Threads :
        /\ t # u
        /\ threads[t].session_id = "s1" /\ threads[u].session_id = "s1"
        /\ threads[t].created /\ threads[u].created
        /\ threads[t].stored /\ threads[t].video_id = <<"A">>
        /\ threads[u].pc = "in_handler"
        /\ sessions["s1"] = EmptySession

\* The leaves of the provider's i-th vector.
RawLeaves(i) == _flatten(sanitizing.raw[i], MaxDepth)

SanitizedLike(out, leaves) ==
    /\ Len(out) = Len(leaves)
    /\ \A j \in 1..Len(out) :
          /\ out[j].kind = "float"
          /\ out[j] = IF leaves[j].kind = "float" THEN leaves[j] ELSE Float(0)

\* C39: every vector embed_query or embed_documents returns has as many
\* elements as the provider's vector has leaves, all finite: a finite number
\* is kept, and NaN, an infinity or a non-number is 0.0; so the validator's
\* finiteness check never rejects what embed_query returned.
C39_SanitizedFinite ==
    (sanitizing # <<>> /\ sanitizing.done) =>
        /\ SanitizedLike(sanitizing.query, RawLeaves(1))
        /\ Len(sanitizing.documents) = Len(sanitizing.raw)
        /\ \A i \in 1..Len(sanitizing.raw) :
              SanitizedLike(sanitizing.documents[i], RawLeaves(i))
        /\ ~sanitizing.rejected

\* The provider answered [[NaN, 5]] and then [Inf, None]: the wrapper returned
\* [0, 5] for the query and [[0, 5], [0, 0]] for the documents, and the
\* finiteness check passed.
C39_Witness ==
    /\ sanitizing # <<>>
    /\ sanitizing.done
    /\ sanitizing.raw = <<List(<<List(<<NaN, Float(5)>>)>>), List(<<Inf, NoNumber>>)>>
    /\ sanitizing.query = <<Float(0), Float(5)>>
    /\ sanitizing.documents = <<(<<Float(0), Float(5)>>), (<<Float(0), Float(0)>>)>>
    /\ ~sanitizing.rejected

=============================================================================
